---- MODULE Spec2Model ----
(***************************************************************************)
(* A model of DBKey's ingestion engine: the MSP and SPTXT streaming        *)
(* readers (pkg/reader/msp, pkg/reader/sptxt), the Spectrum IR and its     *)
(* validation (pkg/core), the filter and adjustment pipeline (pkg/filter), *)
(* the mass calculator and the modification database (pkg/core), the       *)
(* SQLite writer (pkg/writer/sqlite) and the two conversion drivers        *)
(* (cmd/dbkey/cmd).                                                        *)
(*                                                                         *)
(* Text is modelled character by character: a Go string is a sequence of   *)
(* one-character strings, a stream is a sequence of lines.  Floating-point *)
(* values are fixed-point integers in units of 10^-6 (Scale), which holds  *)
(* every six-decimal literal of the repository exactly.                    *)
(***************************************************************************)
EXTENDS Integers, Sequences, FiniteSets, TLC

VARIABLES
    format,       \* which reader was constructed: "msp" or "sptxt"
    input,        \* the lines of the underlying stream (bufio.Scanner source)
    pos,          \* number of lines the scanner has consumed
    lineNum,      \* Reader.lineNum
    currentSpec,  \* Reader.currentSpec (NilSpec for nil)
    err,          \* Reader.err (NoErr for nil)
    modDB,        \* Reader.modDB.mods: name -> mass shift
    calls,        \* history: one record per Next call, in order: the scanner
                  \* position before and after it, what readSpectrum returned
                  \* and the value Next returned
    yielded,      \* history: the Spectrum of each Next call that returned true
    fate,         \* history: what readSpectrum did with each consumed line
    entries,      \* the library entries the stream was written from, if any
    config,       \* the filter.Config of the run
    stages,       \* history: one record per Config.Apply call, in order: the
                  \* peaks it was given and the peaks after each of its steps
    verdict,      \* history: what each Spectrum.Validate call returned
    masses,       \* history: one record per mass calculator call
    loads,        \* history: one record per ModDatabase.Add or LoadFromCSV call
    writer,       \* sqlite.Writer: the rows of CompoundTable and SpectrumTable,
                  \* compoundID, and what each WriteSpectrum call returned
    flags,        \* the command-line flags and lookup tables of a conversion
    run           \* a conversion driver: its position, count and skipped, and
                  \* the history of what each loop iteration did

\* the state of the calculator, the database loader, the writer and the drivers
sinkVars == <<masses, loads, writer, flags, run>>

vars == <<format, input, pos, lineNum, currentSpec, err, modDB, calls, yielded,
          fate, entries, config, stages, verdict, masses, loads, writer, flags,
          run>>

----------------------------------------------------------------------------
(* Characters and strings *)

Digits == {"0", "1", "2", "3", "4", "5", "6", "7", "8", "9"}

DigitVal(c) ==
    CASE c = "0" -> 0 [] c = "1" -> 1 [] c = "2" -> 2 [] c = "3" -> 3
      [] c = "4" -> 4 [] c = "5" -> 5 [] c = "6" -> 6 [] c = "7" -> 7
      [] c = "8" -> 8 [] c = "9" -> 9

DigitChar(d) ==
    CASE d = 0 -> "0" [] d = 1 -> "1" [] d = 2 -> "2" [] d = 3 -> "3"
      [] d = 4 -> "4" [] d = 5 -> "5" [] d = 6 -> "6" [] d = 7 -> "7"
      [] d = 8 -> "8" [] d = 9 -> "9"

UpperLetters ==
    {"A", "B", "C", "D", "E", "F", "G", "H", "I", "J", "K", "L", "M",
     "N", "O", "P", "Q", "R", "S", "T", "U", "V", "W", "X", "Y", "Z"}

LowerLetters ==
    {"a", "b", "c", "d", "e", "f", "g", "h", "i", "j", "k", "l", "m",
     "n", "o", "p", "q", "r", "s", "t", "u", "v", "w", "x", "y", "z"}

\* the regexp class [a-zA-Z]
IsLetter(c) == c \in UpperLetters \cup LowerLetters

\* the regexp class \d
IsDigit(c) == c \in Digits

\* unicode.IsSpace restricted to the characters the model uses
IsSpace(c) == c \in {" ", "\t"}

\* s[from .. to] with Go's half-open slice s[from-1:to] written 1-based
Slice(s, from, to) == SubSeq(s, from, to)

\* strings.HasPrefix
HasPrefix(s, p) == Len(s) >= Len(p) /\ SubSeq(s, 1, Len(p)) = p

\* strings.TrimPrefix
TrimPrefix(s, p) == IF HasPrefix(s, p) THEN SubSeq(s, Len(p) + 1, Len(s)) ELSE s

RECURSIVE TrimLeftSpace(_)
TrimLeftSpace(s) ==
    IF s # <<>> /\ IsSpace(Head(s)) THEN TrimLeftSpace(Tail(s)) ELSE s

RECURSIVE TrimRightSpace(_)
TrimRightSpace(s) ==
    IF s # <<>> /\ IsSpace(s[Len(s)])
    THEN TrimRightSpace(SubSeq(s, 1, Len(s) - 1))
    ELSE s

\* strings.TrimSpace
TrimSpace(s) == TrimRightSpace(TrimLeftSpace(s))

\* strings.Index for a one-character separator: 0-based index, -1 if absent
RECURSIVE IndexFrom(_, _, _)
IndexFrom(s, c, i) ==
    IF i > Len(s) THEN -1
    ELSE IF s[i] = c THEN i - 1
    ELSE IndexFrom(s, c, i + 1)

Index(s, c) == IndexFrom(s, c, 1)

\* strings.Split(s, sep) for a separator sep of one or more characters:
\* always at least one part, empty parts kept
RECURSIVE SplitAcc(_, _, _, _)
SplitAcc(s, sep, cur, acc) ==
    IF s = <<>> THEN Append(acc, cur)
    ELSE IF HasPrefix(s, sep)
         THEN SplitAcc(SubSeq(s, Len(sep) + 1, Len(s)), sep, <<>>, Append(acc, cur))
         ELSE SplitAcc(Tail(s), sep, Append(cur, Head(s)), acc)

Split(s, sep) == SplitAcc(s, sep, <<>>, <<>>)

\* strings.SplitN(s, sep, 2): cut at the first separator only
SplitN2(s, sep) ==
    LET i == Index(s, sep[1])
    IN  IF i < 0 THEN <<s>>
        ELSE <<SubSeq(s, 1, i), SubSeq(s, i + 2, Len(s))>>

\* strings.Fields: maximal runs of non-space characters
RECURSIVE FieldsAcc(_, _, _)
FieldsAcc(s, cur, acc) ==
    IF s = <<>> THEN (IF cur = <<>> THEN acc ELSE Append(acc, cur))
    ELSE IF IsSpace(Head(s))
         THEN FieldsAcc(Tail(s), <<>>, IF cur = <<>> THEN acc ELSE Append(acc, cur))
         ELSE FieldsAcc(Tail(s), Append(cur, Head(s)), acc)

Fields(s) == FieldsAcc(s, <<>>, <<>>)

\* strings.Trim(s, cutset) / strings.TrimLeft(s, cutset)
RECURSIVE TrimLeft(_, _)
TrimLeft(s, cutset) ==
    IF s # <<>> /\ Head(s) \in cutset THEN TrimLeft(Tail(s), cutset) ELSE s

RECURSIVE TrimRight(_, _)
TrimRight(s, cutset) ==
    IF s # <<>> /\ s[Len(s)] \in cutset
    THEN TrimRight(SubSeq(s, 1, Len(s) - 1), cutset)
    ELSE s

Trim(s, cutset) == TrimRight(TrimLeft(s, cutset), cutset)

----------------------------------------------------------------------------
(* Numbers *)

RECURSIVE Pow10(_)
Pow10(n) == IF n = 0 THEN 1 ELSE 10 * Pow10(n - 1)

\* decimal places kept of a float64: the precision the repository formats
\* masses with ("%.6f")
ScaleDigits == 6

\* fixed-point unit of every float64 of the model: 1/Scale
Scale == Pow10(ScaleDigits)

AllDigits(s) == \A i \in 1..Len(s) : IsDigit(s[i])

RECURSIVE DigitsValue(_, _)
DigitsValue(s, acc) ==
    IF s = <<>> THEN acc ELSE DigitsValue(Tail(s), 10 * acc + DigitVal(Head(s)))

\* the unsigned part of s after an optional sign
Unsigned(s) == IF s # <<>> /\ Head(s) \in {"+", "-"} THEN Tail(s) ELSE s

Sign(s) == IF s # <<>> /\ Head(s) = "-" THEN -1 ELSE 1

\* strconv.Atoi(s): [ok, val]; ok is FALSE when Atoi returns an error
Atoi(s) ==
    LET u == Unsigned(s)
    IN  IF u # <<>> /\ AllDigits(u)
        THEN [ok |-> TRUE, val |-> Sign(s) * DigitsValue(u, 0)]
        ELSE [ok |-> FALSE, val |-> 0]

\* strconv.ParseFloat(s, 64) on decimal literals [sign]digits[.digits]
\* (at least one digit), the value in units of 1/Scale; anything else the
\* model's alphabets can spell is a syntax error
ParseFloat(s) ==
    LET u    == Unsigned(s)
        dot  == Index(u, ".")
        ip   == IF dot < 0 THEN u ELSE SubSeq(u, 1, dot)
        fp   == IF dot < 0 THEN <<>> ELSE SubSeq(u, dot + 2, Len(u))
        fp6  == SubSeq(fp, 1, IF Len(fp) < ScaleDigits THEN Len(fp) ELSE ScaleDigits)
    IN  IF AllDigits(ip) /\ AllDigits(fp) /\ Len(ip) + Len(fp) > 0
        THEN [ok  |-> TRUE,
              val |-> Sign(s) * (DigitsValue(ip, 0) * Scale
                                 + DigitsValue(fp6, 0) * Pow10(ScaleDigits - Len(fp6)))]
        ELSE [ok |-> FALSE, val |-> 0]

RECURSIVE NatToChars(_)
NatToChars(n) ==
    IF n < 10 THEN <<DigitChar(n)>>
    ELSE Append(NatToChars(n \div 10), DigitChar(n % 10))

\* fmt.Sprintf("%.0f", v) for v >= 0: round to the nearest integer, ties to even
FormatF0(v) ==
    LET q == v \div Scale
        r == v % Scale
        n == IF 2 * r > Scale \/ (2 * r = Scale /\ q % 2 = 1) THEN q + 1 ELSE q
    IN  NatToChars(n)

\* float64 values that are not finite: +Inf and -Inf lie beyond every finite
\* value of the model, NaN is a value of its own
PosInf == 2000 * Scale
NegInf == -PosInf
NaN    == PosInf + 1

\* math.IsNaN, math.IsInf(x, 0)
IsNaN(x) == x = NaN
IsInf(x) == x \in {PosInf, NegInf}

\* the float64 comparisons x < y and x <= y: false when either side is NaN
FLt(x, y) == ~IsNaN(x) /\ ~IsNaN(y) /\ x < y
FLe(x, y) == ~IsNaN(x) /\ ~IsNaN(y) /\ x <= y

----------------------------------------------------------------------------
(* pkg/core: the intermediate representation *)

\* core.Modification
Modification(mass, position, name) ==
    [Mass |-> mass, Position |-> position, Name |-> name]

\* core.Peak
Peak(mz, intensity, annotation) ==
    [MZ |-> mz, Intensity |-> intensity, Annotation |-> annotation, Charge |-> 0]

\* &core.Spectrum{SourceFormat: f, Peaks: []core.Peak{}}: every other field
\* has Go's zero value; a nil *float64 is the empty sequence, a set one <<v>>
NewSpectrum(f) ==
    [Sequence          |-> <<>>,
     Charge            |-> 0,
     PrecursorMZ       |-> 0,
     Peaks             |-> <<>>,
     FragmentationMode |-> "",
     MassAnalyzer      |-> "",
     RetentionTime     |-> <<>>,
     CollisionEnergy   |-> <<>>,
     Modifications     |-> <<>>,
     MassOffset        |-> 0,
     CompoundClass     |-> "",
     SourceFormat      |-> f]

\* a nil *core.Spectrum
NilSpec == [nil |-> TRUE]

\* a nil error
NoErr == [line |-> 0, msg |-> ""]

\* fmt.Errorf("line %d: %w", lineNum, err), the message kept as its kind
LineErr(n, m) == [line |-> n, msg |-> m]

----------------------------------------------------------------------------
(* pkg/core: the modification database *)

\* a variant of Add that keeps the mass a name already has
Add_KeepFirst(db, name, mass) ==
    [n \in (DOMAIN db) \cup {name} |-> IF n \in DOMAIN db THEN db[n] ELSE mass]

\* ModDatabase.Add
Add(db, name, mass) ==
    [n \in (DOMAIN db) \cup {name} |-> IF n = name THEN mass ELSE db[n]]

\* ModDatabase.GetMass: [ok, mass]
GetMass(db, name) ==
    IF name \in DOMAIN db
    THEN [ok |-> TRUE, mass |-> db[name]]
    ELSE [ok |-> FALSE, mass |-> 0]

\* NewModDatabase: an empty map
NewModDatabase == [n \in {} |-> 0]

\* the db.Add calls of DefaultModDatabase, in order
DefaultModEntries ==
    <<
       <<<<"A", "c", "e", "t", "y", "l">>, 42010565>>,
       <<<<"A", "m", "i", "d", "a", "t", "e", "d">>, -984016>>,
       <<<<"B", "i", "o", "t", "i", "n">>, 226077598>>,
       <<<<"C", "a", "r", "b", "a", "m", "i", "d", "o", "m", "e", "t", "h", "y", "l">>, 57021464>>,
       <<<<"C", "a", "r", "b", "a", "m", "y", "l">>, 43005814>>,
       <<<<"C", "a", "r", "b", "o", "x", "y", "m", "e", "t", "h", "y", "l">>, 58005479>>,
       <<<<"D", "e", "a", "m", "i", "d", "a", "t", "e", "d">>, 984016>>,
       <<<<"M", "e", "t", "-", ">", "H", "s", "e">>, -29992806>>,
       <<<<"M", "e", "t", "-", ">", "H", "s", "l">>, -48003371>>,
       <<<<"N", "I", "P", "C", "A", "M">>, 99068414>>,
       <<<<"P", "h", "o", "s", "p", "h", "o">>, 79966331>>,
       <<<<"D", "e", "h", "y", "d", "r", "a", "t", "e", "d">>, -18010565>>,
       <<<<"P", "r", "o", "p", "i", "o", "n", "a", "m", "i", "d", "e">>, 71037114>>,
       <<<<"P", "y", "r", "o", "-", "c", "a", "r", "b", "a", "m", "i", "d", "o", "m", "e", "t", "h", "y", "l">>, 39994915>>,
       <<<<"G", "l", "u", "-", ">", "p", "y", "r", "o", "-", "G", "l", "u">>, -18010565>>,
       <<<<"G", "l", "n", "-", ">", "p", "y", "r", "o", "-", "G", "l", "u">>, -17026549>>,
       <<<<"C", "a", "t", "i", "o", "n", ":", "N", "a">>, 21981943>>,
       <<<<"M", "e", "t", "h", "y", "l">>, 14015650>>,
       <<<<"O", "x", "i", "d", "a", "t", "i", "o", "n">>, 15994915>>,
       <<<<"D", "i", "m", "e", "t", "h", "y", "l">>, 28031300>>,
       <<<<"T", "r", "i", "m", "e", "t", "h", "y", "l">>, 42046950>>,
       <<<<"M", "e", "t", "h", "y", "l", "t", "h", "i", "o">>, 45987721>>,
       <<<<"S", "u", "l", "f", "o">>, 79956815>>,
       <<<<"H", "e", "x">>, 162052824>>,
       <<<<"L", "i", "p", "o", "y", "l">>, 188032956>>,
       <<<<"H", "e", "x", "N", "A", "c">>, 203079373>>,
       <<<<"F", "a", "r", "n", "e", "s", "y", "l">>, 204187801>>,
       <<<<"M", "y", "r", "i", "s", "t", "o", "y", "l">>, 210198366>>,
       <<<<"P", "y", "r", "i", "d", "o", "x", "a", "l", "P", "h", "o", "s", "p", "h", "a", "t", "e">>, 229014009>>,
       <<<<"P", "a", "l", "m", "i", "t", "o", "y", "l">>, 238229666>>,
       <<<<"G", "e", "r", "a", "n", "y", "l", "G", "e", "r", "a", "n", "y", "l">>, 272250401>>,
       <<<<"P", "h", "o", "s", "p", "h", "o", "p", "a", "n", "t", "e", "t", "h", "e", "i", "n", "e">>, 340085794>>,
       <<<<"F", "A", "D">>, 783141486>>,
       <<<<"G", "u", "a", "n", "i", "d", "i", "n", "y", "l">>, 42021798>>,
       <<<<"H", "N", "E">>, 156115030>>,
       <<<<"G", "l", "u", "c", "u", "r", "o", "n", "y", "l">>, 176032088>>,
       <<<<"G", "l", "u", "t", "a", "t", "h", "i", "o", "n", "e">>, 305068156>>,
       <<<<"P", "r", "o", "p", "i", "o", "n", "y", "l">>, 56026215>>,
       <<<<"T", "M", "T">>, 229162932>>,
       <<<<"T", "M", "T", "P", "r", "o">>, 304207146>>,
       <<<<"T", "M", "T", "6", "p", "l", "e", "x">>, 229162932>>,
       <<<<"T", "M", "T", "1", "0", "p", "l", "e", "x">>, 229162932>>,
       <<<<"T", "M", "T", "1", "1", "p", "l", "e", "x">>, 229162932>>,
       <<<<"T", "M", "T", "1", "6", "p", "l", "e", "x">>, 304207146>>,
       <<<<"i", "T", "R", "A", "Q", "4", "p", "l", "e", "x">>, 144102063>>,
       <<<<"i", "T", "R", "A", "Q", "8", "p", "l", "e", "x">>, 304205360>>
    >>

RECURSIVE AddAll(_, _)
AddAll(db, adds) ==
    IF adds = <<>> THEN db
    ELSE AddAll(Add(db, Head(adds)[1], Head(adds)[2]), Tail(adds))

\* core.DefaultModDatabase
DefaultModDatabase == AddAll(NewModDatabase, DefaultModEntries)

----------------------------------------------------------------------------
(* String literals of the readers *)

PfxName        == <<"N", "a", "m", "e", ":", " ">>
PfxMW          == <<"M", "W", ":", " ">>
PfxComment     == <<"C", "o", "m", "m", "e", "n", "t", ":", " ">>
PfxNumPeaksMsp == <<"N", "u", "m", " ", "p", "e", "a", "k", "s", ":", " ">>
PfxNumPeaks    == <<"N", "u", "m", "P", "e", "a", "k", "s", ":", " ">>
PfxPrecursorMZ == <<"P", "r", "e", "c", "u", "r", "s", "o", "r", "M", "Z", ":", " ">>
PfxHash        == <<"#", "#", "#">>

KeyParent           == <<"P", "a", "r", "e", "n", "t">>
KeyCollision_energy == <<"C", "o", "l", "l", "i", "s", "i", "o", "n", "_", "e", "n", "e", "r", "g", "y">>
KeyCollisionEnergy  == <<"C", "o", "l", "l", "i", "s", "i", "o", "n", "E", "n", "e", "r", "g", "y">>
KeyiRT              == <<"i", "R", "T">>
KeyRetentionTime    == <<"R", "e", "t", "e", "n", "t", "i", "o", "n", "T", "i", "m", "e">>
KeyMods             == <<"M", "o", "d", "s">>
KeyModString        == <<"M", "o", "d", "S", "t", "r", "i", "n", "g">>

\* the cutset "ACDEFGHIKLMNPQRSTVWY" of parseModString
AminoAcidLetters ==
    {"A", "C", "D", "E", "F", "G", "H", "I", "K", "L",
     "M", "N", "P", "Q", "R", "S", "T", "V", "W", "Y"}

----------------------------------------------------------------------------
(* pkg/reader/msp *)

\* msp.Reader.parseName: [ok, spec, msg]
MspParseName(spec, name) ==
    LET parts == Split(name, <<"/">>)
    IN  IF Len(parts) # 2
        THEN [ok |-> FALSE, spec |-> spec, msg |-> "invalid name format"]
        ELSE LET charge == Atoi(parts[2])
                 s1     == [spec EXCEPT !.Sequence = parts[1]]
             IN  IF ~charge.ok
                 THEN [ok |-> FALSE, spec |-> s1, msg |-> "invalid charge in name"]
                 ELSE [ok   |-> TRUE,
                       spec |-> [s1 EXCEPT !.Charge = charge.val],
                       msg  |-> ""]

\* msp.Reader.parseMods: the spectrum after the call (the error is always nil)
MspParseMods(spec, db, modsStr) ==
    LET parts == Split(modsStr, <<",">>)
    IN  IF Len(parts) >= 3
        THEN LET modName  == parts[3]
                 posParts == Split(parts[1], <<"/">>)
             IN  IF Len(posParts) = 2
                 THEN LET p == Atoi(posParts[2])
                          m == GetMass(db, modName)
                      IN  IF p.ok /\ m.ok
                          THEN [spec EXCEPT !.Modifications =
                                   Append(@, Modification(m.mass, p.val, modName))]
                          ELSE spec
                 ELSE spec
        ELSE spec

\* the loop over modSpecs of msp.Reader.parseModString
RECURSIVE MspModSpecs(_, _, _)
MspModSpecs(spec, db, modSpecs) ==
    IF modSpecs = <<>> THEN spec
    ELSE LET rest == Tail(modSpecs)
         IN  IF Head(modSpecs) = <<>> THEN MspModSpecs(spec, db, rest)
             ELSE LET modSpec == TrimSpace(Head(modSpecs))
                      atParts == Split(modSpec, <<"@">>)
                  IN  IF Len(atParts) # 2 THEN MspModSpecs(spec, db, rest)
                      ELSE LET modName == atParts[1]
                               posStr  == TrimLeft(atParts[2], AminoAcidLetters)
                               p       == Atoi(posStr)
                               m       == GetMass(db, modName)
                           IN  IF ~p.ok THEN MspModSpecs(spec, db, rest)
                               ELSE IF m.ok
                               THEN MspModSpecs(
                                        [spec EXCEPT !.Modifications =
                                            Append(@, Modification(m.mass, p.val, modName))],
                                        db, rest)
                               ELSE MspModSpecs(spec, db, rest)

\* msp.Reader.parseModString: the spectrum after the call (the error is always nil)
MspParseModString(spec, db, modString) ==
    LET parts == Split(modString, <<"/", "/">>)
    IN  IF Len(parts) < 2 THEN spec
        ELSE LET modPart == Split(parts[2], <<"/">>)[1]
             IN  MspModSpecs(spec, db, Split(modPart, <<";">>))

\* one iteration of the loop over fields of msp.Reader.parseComment
MspCommentField(spec, db, field) ==
    LET parts == SplitN2(field, <<"=">>)
    IN  IF Len(parts) # 2 THEN spec
        ELSE LET key   == parts[1]
                 value == parts[2]
                 f     == ParseFloat(value)
             IN  CASE key = KeyParent ->
                        IF f.ok THEN [spec EXCEPT !.PrecursorMZ = f.val] ELSE spec
                   [] key \in {KeyCollision_energy, KeyCollisionEnergy} ->
                        IF f.ok THEN [spec EXCEPT !.CollisionEnergy = <<f.val>>] ELSE spec
                   [] key \in {KeyiRT, KeyRetentionTime} ->
                        IF f.ok THEN [spec EXCEPT !.RetentionTime = <<f.val>>] ELSE spec
                   [] key = KeyMods -> MspParseMods(spec, db, value)
                   [] key = KeyModString -> MspParseModString(spec, db, value)
                   [] OTHER -> spec

RECURSIVE MspCommentFields(_, _, _)
MspCommentFields(spec, db, fields) ==
    IF fields = <<>> THEN spec
    ELSE MspCommentFields(MspCommentField(spec, db, Head(fields)), db, Tail(fields))

\* a variant of parseComment that fails on a token without "="
MspParseComment_Strict(spec, db, comment) ==
    LET fields == Fields(comment)
        bad    == \E i \in 1..Len(fields) : Len(SplitN2(fields[i], <<"=">>)) # 2
    IN  [ok |-> ~bad, spec |-> MspCommentFields(spec, db, fields),
         msg |-> IF bad THEN "invalid comment field" ELSE ""]

\* msp.Reader.parseComment: [ok, spec, msg]; the code returns nil on every path
MspParseComment(spec, db, comment) ==
    [ok |-> TRUE, spec |-> MspCommentFields(spec, db, Fields(comment)), msg |-> ""]

\* msp.Reader.parsePeak keeping the quotes of the third field
MspParsePeak_QuotesKept(line) ==
    LET fields == Fields(line)
        none   == Peak(0, 0, <<>>)
    IN  IF Len(fields) < 2
        THEN [ok |-> FALSE, peak |-> none, msg |-> "invalid peak format"]
        ELSE LET mz        == ParseFloat(fields[1])
                 intensity == ParseFloat(fields[2])
                 idx       == Index(fields[3], "/")
                 annot     == IF idx > 0 THEN SubSeq(fields[3], 1, idx) ELSE fields[3]
             IN  IF ~mz.ok
                 THEN [ok |-> FALSE, peak |-> none, msg |-> "invalid m/z value"]
                 ELSE IF ~intensity.ok
                 THEN [ok |-> FALSE, peak |-> none, msg |-> "invalid intensity value"]
                 ELSE [ok   |-> TRUE,
                       peak |-> Peak(mz.val, intensity.val,
                                     IF Len(fields) >= 3 THEN annot ELSE <<>>),
                       msg  |-> ""]

\* msp.Reader.parsePeak: [ok, peak, msg]
MspParsePeak(line) ==
    LET fields == Fields(line)
        none   == Peak(0, 0, <<>>)
    IN  IF Len(fields) < 2
        THEN [ok |-> FALSE, peak |-> none, msg |-> "invalid peak format"]
        ELSE LET mz        == ParseFloat(fields[1])
                 intensity == ParseFloat(fields[2])
                 quoted    == Trim(fields[3], {"\""})
                 idx       == Index(quoted, "/")
                 annot     == IF idx > 0 THEN SubSeq(quoted, 1, idx) ELSE quoted
             IN  IF ~mz.ok
                 THEN [ok |-> FALSE, peak |-> none, msg |-> "invalid m/z value"]
                 ELSE IF ~intensity.ok
                 THEN [ok |-> FALSE, peak |-> none, msg |-> "invalid intensity value"]
                 ELSE [ok   |-> TRUE,
                       peak |-> Peak(mz.val, intensity.val,
                                     IF Len(fields) >= 3 THEN annot ELSE <<>>),
                       msg  |-> ""]

\* the local variables of readSpectrum at the top of its scan loop
ReadState(f, p, n, ft) ==
    [spec |-> NewSpectrum(f), numPeaks |-> 0, inPeaks |-> FALSE, peaksRead |-> 0,
     pos |-> p, lineNum |-> n, fate |-> ft]

\* a variant in which returning from inside the scan loop puts the scanner
\* back at the start of the stream
ReadResult_Rewound(out, st, spec, e, what) ==
    [out |-> out, spec |-> spec, err |-> e,
     pos |-> 0, lineNum |-> 0, fate |-> Append(st.fate, what)]

\* what readSpectrum returns, with the scanner position it leaves behind:
\* out is "spec" (spec, nil), "eof" (nil, io.EOF) or "err" (nil, err)
ReadResult(out, st, spec, e, what) ==
    [out |-> out, spec |-> spec, err |-> e,
     pos |-> st.pos, lineNum |-> st.lineNum, fate |-> Append(st.fate, what)]

\* the header branch of msp.Reader.readSpectrum for one line: the next loop
\* state, or the error returned
MspHeader(st, db, line) ==
    IF HasPrefix(line, PfxName)
    THEN LET r == MspParseName(st.spec, TrimPrefix(line, PfxName))
         IN  IF r.ok
             THEN [st EXCEPT !.spec = r.spec, !.fate = Append(@, "name")]
             ELSE ReadResult("err", st, NilSpec, LineErr(st.lineNum, r.msg), "error")
    ELSE IF HasPrefix(line, PfxMW)
    THEN [st EXCEPT !.fate = Append(@, "mw")]
    ELSE IF HasPrefix(line, PfxComment)
    THEN LET r == MspParseComment(st.spec, db, TrimPrefix(line, PfxComment))
         IN  IF r.ok
             THEN [st EXCEPT !.spec = r.spec, !.fate = Append(@, "comment")]
             ELSE ReadResult("err", st, NilSpec, LineErr(st.lineNum, r.msg), "error")
    ELSE IF HasPrefix(line, PfxNumPeaksMsp)
    THEN LET n == Atoi(TrimPrefix(line, PfxNumPeaksMsp))
         IN  IF n.ok
             THEN [st EXCEPT !.numPeaks = n.val, !.inPeaks = TRUE,
                             !.fate = Append(@, "count")]
             ELSE ReadResult("err", st, NilSpec,
                             LineErr(st.lineNum, "invalid num peaks"), "error")
    ELSE [st EXCEPT !.fate = Append(@, "ignored")]

\* msp.Reader.readSpectrum ending a record at a Name line met in the PEAKS
\* state
RECURSIVE MspScan_NameEndsPeaks(_, _, _)
MspScan_NameEndsPeaks(lines, db, st) ==
    IF st.pos >= Len(lines)
    THEN IF st.spec.Sequence # <<>>
         THEN [out |-> "spec", spec |-> st.spec, err |-> NoErr,
               pos |-> st.pos, lineNum |-> st.lineNum, fate |-> st.fate]
         ELSE [out |-> "eof", spec |-> NilSpec, err |-> NoErr,
               pos |-> st.pos, lineNum |-> st.lineNum, fate |-> st.fate]
    ELSE LET line == TrimSpace(lines[st.pos + 1])
             s1   == [st EXCEPT !.pos = @ + 1, !.lineNum = @ + 1]
         IN  IF line = <<>> /\ s1.spec.Sequence = <<>>
             THEN MspScan_NameEndsPeaks(lines, db, [s1 EXCEPT !.fate = Append(@, "skip")])
             ELSE IF s1.inPeaks
                     /\ (s1.peaksRead >= s1.numPeaks \/ HasPrefix(line, PfxName))
             THEN ReadResult("spec", s1, s1.spec, NoErr, "discard")
             ELSE IF ~s1.inPeaks
             THEN LET h == MspHeader(s1, db, line)
                  IN  IF "out" \in DOMAIN h THEN h
                      ELSE MspScan_NameEndsPeaks(lines, db, h)
             ELSE LET r  == MspParsePeak(line)
                      s2 == [s1 EXCEPT !.spec.Peaks = Append(@, r.peak),
                                       !.peaksRead = @ + 1]
                  IN  IF ~r.ok
                      THEN ReadResult("err", s1, NilSpec,
                                      LineErr(s1.lineNum, r.msg), "error")
                      ELSE IF s2.peaksRead >= s2.numPeaks
                      THEN ReadResult("spec", s2, s2.spec, NoErr, "peak")
                      ELSE MspScan_NameEndsPeaks(lines, db,
                                                 [s2 EXCEPT !.fate = Append(@, "peak")])

\* msp.Reader.readSpectrum from loop state st: the scan loop and what follows it
RECURSIVE MspScan(_, _, _)
MspScan(lines, db, st) ==
    IF st.pos >= Len(lines)
    THEN \* Scan() returns false at the end of the stream; scanner.Err() is nil
         IF st.spec.Sequence # <<>>
         THEN [out |-> "spec", spec |-> st.spec, err |-> NoErr,
               pos |-> st.pos, lineNum |-> st.lineNum, fate |-> st.fate]
         ELSE [out |-> "eof", spec |-> NilSpec, err |-> NoErr,
               pos |-> st.pos, lineNum |-> st.lineNum, fate |-> st.fate]
    ELSE LET line == TrimSpace(lines[st.pos + 1])
             s1   == [st EXCEPT !.pos = @ + 1, !.lineNum = @ + 1]
         IN  IF line = <<>> /\ s1.spec.Sequence = <<>>
             THEN MspScan(lines, db, [s1 EXCEPT !.fate = Append(@, "skip")])
             ELSE IF s1.inPeaks /\ s1.peaksRead >= s1.numPeaks
             THEN ReadResult("spec", s1, s1.spec, NoErr, "discard")
             ELSE IF ~s1.inPeaks
             THEN LET h == MspHeader(s1, db, line)
                  IN  IF "out" \in DOMAIN h THEN h ELSE MspScan(lines, db, h)
             ELSE LET r  == MspParsePeak(line)
                      s2 == [s1 EXCEPT !.spec.Peaks = Append(@, r.peak),
                                       !.peaksRead = @ + 1]
                  IN  IF ~r.ok
                      THEN ReadResult("err", s1, NilSpec,
                                      LineErr(s1.lineNum, r.msg), "error")
                      ELSE IF s2.peaksRead >= s2.numPeaks
                      THEN ReadResult("spec", s2, s2.spec, NoErr, "peak")
                      ELSE MspScan(lines, db, [s2 EXCEPT !.fate = Append(@, "peak")])

\* msp.Reader.readSpectrum
MspReadSpectrum(lines, db, p, n, ft) == MspScan(lines, db, ReadState("msp", p, n, ft))

----------------------------------------------------------------------------
(* pkg/reader/sptxt *)

\* length of the maximal run of digits of s starting at index i
RECURSIVE DigitRun(_, _)
DigitRun(s, i) ==
    IF i <= Len(s) /\ IsDigit(s[i]) THEN 1 + DigitRun(s, i + 1) ELSE 0

\* the group (\[\d+(?:\.\d+)?\]) anchored at index j: the index of its closing
\* bracket, 0 when it does not match there
BracketAt(s, j) ==
    IF j > Len(s) \/ s[j] # "[" THEN 0
    ELSE LET d1 == DigitRun(s, j + 1)
             k  == j + 1 + d1
         IN  IF d1 = 0 \/ k > Len(s) THEN 0
             ELSE IF s[k] = "]" THEN k
             ELSE IF s[k] = "."
             THEN LET d2 == DigitRun(s, k + 1)
                      e  == k + 1 + d2
                  IN  IF d2 > 0 /\ e <= Len(s) /\ s[e] = "]" THEN e ELSE 0
             ELSE 0

\* the regexp ([a-zA-Z]?)(\[\d+(?:\.\d+)?\]) anchored at index i:
\* [from, to, aa, mod] (1-based, inclusive), to = 0 when it does not match
MatchAt(s, i) ==
    LET withLetter == IF i <= Len(s) /\ IsLetter(s[i]) THEN BracketAt(s, i + 1) ELSE 0
        bare       == BracketAt(s, i)
    IN  IF withLetter > 0
        THEN [from |-> i, to |-> withLetter, aa |-> <<s[i]>>,
              mod |-> SubSeq(s, i + 1, withLetter)]
        ELSE [from |-> i, to |-> bare, aa |-> <<>>, mod |-> SubSeq(s, i, bare)]

\* re.FindAllStringSubmatchIndex(rawSeq, -1): leftmost, non-overlapping matches
RECURSIVE FindAllFrom(_, _)
FindAllFrom(s, i) ==
    IF i > Len(s) THEN <<>>
    ELSE LET m == MatchAt(s, i)
         IN  IF m.to > 0 THEN <<m>> \o FindAllFrom(s, m.to + 1)
             ELSE FindAllFrom(s, i + 1)

\* a variant of FindAll that keeps the first match only (FindStringSubmatchIndex
\* in place of FindAllStringSubmatchIndex)
FindAll_FirstOnly(s) ==
    LET all == FindAllFrom(s, 1)
    IN  IF all = <<>> THEN <<>> ELSE <<Head(all)>>

FindAll(s) == FindAllFrom(s, 1)

\* the loop over matches of sptxt.Reader.parseInlineModifications; acc holds
\* sequence, mods, position and lastIdx (the index after the previous match)
RECURSIVE InlineLoop(_, _, _)
InlineLoop(rawSeq, matches, acc) ==
    IF matches = <<>>
    THEN [ok       |-> TRUE,
          sequence |-> acc.sequence \o SubSeq(rawSeq, acc.lastIdx, Len(rawSeq)),
          mods     |-> acc.mods]
    ELSE LET m      == Head(matches)
             before == acc.sequence \o SubSeq(rawSeq, acc.lastIdx, m.from - 1)
             mass   == ParseFloat(Trim(m.mod, {"[", "]"}))
         IN  IF ~mass.ok
             THEN [ok |-> FALSE, sequence |-> <<>>, mods |-> <<>>]
             ELSE IF m.aa = <<"n">> \/ m.aa = <<>>
             THEN InlineLoop(rawSeq, Tail(matches),
                      [sequence |-> before,
                       mods     |-> Append(acc.mods,
                                       Modification(mass.val, -1, FormatF0(mass.val))),
                       position |-> acc.position,
                       lastIdx  |-> m.to + 1])
             ELSE InlineLoop(rawSeq, Tail(matches),
                      [sequence |-> before \o m.aa,
                       mods     |-> Append(acc.mods,
                                       Modification(mass.val, acc.position,
                                                    FormatF0(mass.val))),
                       position |-> acc.position + 1,
                       lastIdx  |-> m.to + 1])

\* sptxt.Reader.parseInlineModifications: [ok, sequence, mods]
ParseInlineModifications(rawSeq) ==
    InlineLoop(rawSeq, FindAll(rawSeq),
               [sequence |-> <<>>, mods |-> <<>>, position |-> 0, lastIdx |-> 1])

\* sptxt.Reader.parseName: [ok, spec, msg]
SptxtParseName(spec, name) ==
    LET parts == Split(name, <<"/">>)
    IN  IF Len(parts) # 2
        THEN [ok |-> FALSE, spec |-> spec, msg |-> "invalid name format"]
        ELSE LET charge == Atoi(parts[2])
                 inl    == ParseInlineModifications(parts[1])
             IN  IF ~charge.ok
                 THEN [ok |-> FALSE, spec |-> spec, msg |-> "invalid charge in name"]
                 ELSE IF ~inl.ok
                 THEN [ok |-> FALSE, spec |-> spec,
                       msg |-> "failed to parse modifications from sequence"]
                 ELSE [ok   |-> TRUE,
                       spec |-> [spec EXCEPT !.Charge = charge.val,
                                             !.Sequence = inl.sequence,
                                             !.Modifications = inl.mods],
                       msg  |-> ""]

\* the index of the first modification at position p, 0 when there is none
RECURSIVE FirstAtPosition(_, _, _)
FirstAtPosition(mods, p, j) ==
    IF j > Len(mods) THEN 0
    ELSE IF mods[j].Position = p THEN j
    ELSE FirstAtPosition(mods, p, j + 1)

\* the loop of sptxt.Reader.parseMods over parts, i the 0-based loop index
RECURSIVE SptxtModsLoop(_, _, _, _)
SptxtModsLoop(spec, db, parts, i) ==
    IF i >= Len(parts) \/ i + 2 >= Len(parts) THEN spec
    ELSE LET posParts    == Split(parts[i + 1], <<",">>)
             posSubParts == Split(posParts[1], <<"/">>)
             p           == Atoi(posSubParts[2])
             modName     == parts[i + 3]
             m           == GetMass(db, modName)
             j           == FirstAtPosition(spec.Modifications, p.val, 1)
         IN  IF Len(posSubParts) # 2 THEN SptxtModsLoop(spec, db, parts, i + 3)
             ELSE IF ~p.ok THEN SptxtModsLoop(spec, db, parts, i + 3)
             ELSE IF ~m.ok THEN SptxtModsLoop(spec, db, parts, i + 3)
             ELSE IF j > 0
             THEN SptxtModsLoop([spec EXCEPT !.Modifications[j].Name = modName],
                                db, parts, i + 3)
             ELSE SptxtModsLoop(
                      [spec EXCEPT !.Modifications =
                          Append(@, Modification(m.mass, p.val, modName))],
                      db, parts, i + 3)

\* sptxt.Reader.parseMods: the spectrum after the call (the error is always nil)
SptxtParseMods(spec, db, modsStr) ==
    SptxtModsLoop(spec, db, Split(modsStr, <<"/">>), 0)

\* one iteration of the loop over fields of sptxt.Reader.parseComment
SptxtCommentField(spec, db, field) ==
    LET parts == SplitN2(field, <<"=">>)
    IN  IF Len(parts) # 2 THEN spec
        ELSE LET key   == parts[1]
                 value == parts[2]
                 f     == ParseFloat(value)
                 rt    == ParseFloat(Split(value, <<",">>)[1])
             IN  CASE key = KeyParent ->
                        IF f.ok THEN [spec EXCEPT !.PrecursorMZ = f.val] ELSE spec
                   [] key = KeyCollisionEnergy ->
                        IF f.ok THEN [spec EXCEPT !.CollisionEnergy = <<f.val>>] ELSE spec
                   [] key = KeyRetentionTime ->
                        IF rt.ok THEN [spec EXCEPT !.RetentionTime = <<rt.val>>] ELSE spec
                   [] key = KeyMods -> SptxtParseMods(spec, db, value)
                   [] OTHER -> spec

RECURSIVE SptxtCommentFields(_, _, _)
SptxtCommentFields(spec, db, fields) ==
    IF fields = <<>> THEN spec
    ELSE SptxtCommentFields(SptxtCommentField(spec, db, Head(fields)), db, Tail(fields))

\* sptxt.Reader.parseComment: [ok, spec, msg]; the code returns nil on every path
SptxtParseComment(spec, db, comment) ==
    [ok |-> TRUE, spec |-> SptxtCommentFields(spec, db, Fields(comment)), msg |-> ""]

\* sptxt.Reader.parsePeak: [ok, peak, msg]
SptxtParsePeak(line) ==
    LET fields == Fields(line)
        none   == Peak(0, 0, <<>>)
    IN  IF Len(fields) < 2
        THEN [ok |-> FALSE, peak |-> none, msg |-> "invalid peak format"]
        ELSE LET mz        == ParseFloat(fields[1])
                 intensity == ParseFloat(fields[2])
                 idx       == Index(fields[3], "/")
                 annot     == IF idx > 0 THEN SubSeq(fields[3], 1, idx) ELSE fields[3]
             IN  IF ~mz.ok
                 THEN [ok |-> FALSE, peak |-> none, msg |-> "invalid m/z value"]
                 ELSE IF ~intensity.ok
                 THEN [ok |-> FALSE, peak |-> none, msg |-> "invalid intensity value"]
                 ELSE [ok   |-> TRUE,
                       peak |-> Peak(mz.val, intensity.val,
                                     IF Len(fields) >= 3 THEN annot ELSE <<>>),
                       msg  |-> ""]

\* the header branch of sptxt.Reader.readSpectrum for one line: the next loop
\* state, or the error returned
SptxtHeader(st, db, line) ==
    IF HasPrefix(line, PfxName)
    THEN LET r == SptxtParseName(st.spec, TrimPrefix(line, PfxName))
         IN  IF r.ok
             THEN [st EXCEPT !.spec = r.spec, !.fate = Append(@, "name")]
             ELSE ReadResult("err", st, NilSpec, LineErr(st.lineNum, r.msg), "error")
    ELSE IF HasPrefix(line, PfxMW)
    THEN [st EXCEPT !.fate = Append(@, "mw")]
    ELSE IF HasPrefix(line, PfxPrecursorMZ)
    THEN LET mz == ParseFloat(TrimPrefix(line, PfxPrecursorMZ))
         IN  [st EXCEPT !.spec.PrecursorMZ = IF mz.ok THEN mz.val ELSE @,
                        !.fate = Append(@, "precursor")]
    ELSE IF HasPrefix(line, PfxComment)
    THEN LET r == SptxtParseComment(st.spec, db, TrimPrefix(line, PfxComment))
         IN  IF r.ok
             THEN [st EXCEPT !.spec = r.spec, !.fate = Append(@, "comment")]
             ELSE ReadResult("err", st, NilSpec, LineErr(st.lineNum, r.msg), "error")
    ELSE IF HasPrefix(line, PfxNumPeaks)
    THEN LET n == Atoi(TrimPrefix(line, PfxNumPeaks))
         IN  IF n.ok
             THEN [st EXCEPT !.numPeaks = n.val, !.inPeaks = TRUE,
                             !.fate = Append(@, "count")]
             ELSE ReadResult("err", st, NilSpec,
                             LineErr(st.lineNum, "invalid num peaks"), "error")
    ELSE [st EXCEPT !.fate = Append(@, "ignored")]

\* sptxt.Reader.readSpectrum from loop state st: the scan loop and what follows it
RECURSIVE SptxtScan(_, _, _)
SptxtScan(lines, db, st) ==
    IF st.pos >= Len(lines)
    THEN \* Scan() returns false at the end of the stream; scanner.Err() is nil
         IF st.spec.Sequence # <<>>
         THEN [out |-> "spec", spec |-> st.spec, err |-> NoErr,
               pos |-> st.pos, lineNum |-> st.lineNum, fate |-> st.fate]
         ELSE [out |-> "eof", spec |-> NilSpec, err |-> NoErr,
               pos |-> st.pos, lineNum |-> st.lineNum, fate |-> st.fate]
    ELSE LET line == TrimSpace(lines[st.pos + 1])
             s1   == [st EXCEPT !.pos = @ + 1, !.lineNum = @ + 1]
         IN  IF line = <<>> \/ HasPrefix(line, PfxHash)
             THEN SptxtScan(lines, db, [s1 EXCEPT !.fate = Append(@, "skip")])
             ELSE IF s1.inPeaks /\ s1.peaksRead >= s1.numPeaks
             THEN ReadResult("spec", s1, s1.spec, NoErr, "discard")
             ELSE IF ~s1.inPeaks
             THEN LET h == SptxtHeader(s1, db, line)
                  IN  IF "out" \in DOMAIN h THEN h ELSE SptxtScan(lines, db, h)
             ELSE LET r  == SptxtParsePeak(line)
                      s2 == [s1 EXCEPT !.spec.Peaks = Append(@, r.peak),
                                       !.peaksRead = @ + 1]
                  IN  IF ~r.ok
                      THEN ReadResult("err", s1, NilSpec,
                                      LineErr(s1.lineNum, r.msg), "error")
                      ELSE IF s2.peaksRead >= s2.numPeaks
                      THEN ReadResult("spec", s2, s2.spec, NoErr, "peak")
                      ELSE SptxtScan(lines, db, [s2 EXCEPT !.fate = Append(@, "peak")])

\* sptxt.Reader.readSpectrum
SptxtReadSpectrum(lines, db, p, n, ft) ==
    SptxtScan(lines, db, ReadState("sptxt", p, n, ft))

----------------------------------------------------------------------------
(* The readers' operations *)

\* bound on the number of Next calls made on one reader
MaxCalls == 4

\* a variant of Next that stores every failure of readSpectrum, io.EOF included
NextWith_EOFStored(r) ==
    /\ Len(calls) < MaxCalls
    /\ pos' = r.pos
    /\ lineNum' = r.lineNum
    /\ fate' = r.fate
    /\ currentSpec' = IF r.out = "spec" THEN r.spec ELSE NilSpec
    /\ err' = IF r.out = "err" THEN r.err
              ELSE IF r.out = "eof" THEN [line |-> 0, msg |-> "EOF"]
              ELSE err
    /\ calls' = Append(calls, [from |-> pos, to |-> r.pos, out |-> r.out,
                                ret |-> (r.out = "spec")])
    /\ yielded' = IF r.out = "spec" THEN Append(yielded, r.spec) ELSE yielded
    /\ UNCHANGED <<format, input, modDB, entries, config, stages, verdict, sinkVars>>

\* a variant of Next without the reset of currentSpec before the read
NextWith_SpecKept(r) ==
    /\ Len(calls) < MaxCalls
    /\ pos' = r.pos
    /\ lineNum' = r.lineNum
    /\ fate' = r.fate
    /\ currentSpec' = IF r.out = "spec" THEN r.spec ELSE currentSpec
    /\ err' = IF r.out = "err" THEN r.err ELSE err
    /\ calls' = Append(calls, [from |-> pos, to |-> r.pos, out |-> r.out,
                                ret |-> (r.out = "spec")])
    /\ yielded' = IF r.out = "spec" THEN Append(yielded, r.spec) ELSE yielded
    /\ UNCHANGED <<format, input, modDB, entries, config, stages, verdict, sinkVars>>

\* Reader.Next given what readSpectrum returned: currentSpec is reset, err is
\* kept unless readSpectrum fails with something other than io.EOF
NextWith(r) ==
    /\ Len(calls) < MaxCalls
    /\ pos' = r.pos
    /\ lineNum' = r.lineNum
    /\ fate' = r.fate
    /\ currentSpec' = IF r.out = "spec" THEN r.spec ELSE NilSpec
    /\ err' = IF r.out = "err" THEN r.err ELSE err
    /\ calls' = Append(calls, [from |-> pos, to |-> r.pos, out |-> r.out,
                                ret |-> (r.out = "spec")])
    /\ yielded' = IF r.out = "spec" THEN Append(yielded, r.spec) ELSE yielded
    /\ UNCHANGED <<format, input, modDB, entries, config, stages, verdict, sinkVars>>

\* msp.Reader.Next
MspNext ==
    /\ format = "msp"
    /\ NextWith(MspReadSpectrum(input, modDB, pos, lineNum, fate))

\* sptxt.Reader.Next
SptxtNext ==
    /\ format = "sptxt"
    /\ NextWith(SptxtReadSpectrum(input, modDB, pos, lineNum, fate))

\* msp.NewReader / sptxt.NewReader over the stream lines
NewReader(f, lines) ==
    /\ format = f
    /\ input = lines
    /\ pos = 0
    /\ lineNum = 0
    /\ currentSpec = NilSpec
    /\ err = NoErr
    /\ modDB = DefaultModDatabase
    /\ calls = <<>>
    /\ yielded = <<>>
    /\ fate = <<>>

\* filter.Config{}: every field has Go's zero value
ZeroConfig ==
    [TopN |-> 0, IntensityCutoff |-> 0, IonTypes |-> <<>>,
     OldModMass |-> 0, NewModMass |-> 0]

\* sqlite.NewWriter: empty tables, compoundID 1, the database open, no
\* WriteSpectrum or Finalize call yet (header and maintenance count the rows
\* of HeaderTable and MaintenanceTable, finalizes lists whether each Finalize
\* call returned nil)
NewWriter ==
    [compounds |-> <<>>, spectra |-> <<>>, compoundID |-> 1, returned |-> <<>>,
     header |-> 0, maintenance |-> 0, closed |-> FALSE, finalizes |-> <<>>]

\* the defaults of the convert command's flags: --fragmentation HCD,
\* --mass-analyzer FT, --collision-energy 0, no lookup table
DefaultFlags ==
    [fragmentation    |-> "HCD",
     massAnalyzer     |-> "FT",
     collisionEnergy  |-> 0,
     massOffsetMap    |-> [q \in {} |-> 0],
     compoundClassMap |-> [q \in {} |-> ""]]

\* a driver before its loop: count := 0, skipped := 0
NewRun == [status |-> "running", count |-> 0, skipped |-> 0, log |-> <<>>]

\* no conversion is running: nothing was calculated, loaded or written
Offline ==
    /\ masses = <<>>
    /\ loads = <<>>
    /\ writer = NewWriter
    /\ flags = DefaultFlags
    /\ run = NewRun

\* no filter pipeline has run, nothing has been validated or converted
NoPipeline ==
    /\ config = ZeroConfig
    /\ stages = <<>>
    /\ verdict = <<>>
    /\ Offline

----------------------------------------------------------------------------
(* Streams of arbitrary lines *)

\* bound on the number of lines of an arbitrary stream
MaxLines == 3

Formats == {"msp", "sptxt"}

\* the peak-count header of each format
CountPrefix(f) == IF f = "msp" THEN PfxNumPeaksMsp ELSE PfxNumPeaks

LineNameGood  == <<"N", "a", "m", "e", ":", " ", "A", "C", "/", "2">>
LineNameBad   == <<"N", "a", "m", "e", ":", " ", "A", "C">>
LineComment   == <<"C", "o", "m", "m", "e", "n", "t", ":", " ", "P", "a", "r", "e", "n", "t", "=", "3", ".", "5">>
LinePeakGood  == <<"1", "0", "0", " ", "5">>
LinePeakBad   == <<"1", "0", "0", " ", "x">>
LineBlank     == <<>>
LineCount(f, n) == CountPrefix(f) \o n

\* the lines an arbitrary stream is made of: well-formed and malformed Name,
\* peak-count and peak lines, a Comment line and a blank line
LinesOf(f) ==
    {LineNameGood, LineNameBad, LineComment, LinePeakGood, LinePeakBad, LineBlank,
     LineCount(f, <<"0">>), LineCount(f, <<"1">>), LineCount(f, <<"x">>)}

SeqsUpTo(S, n) == UNION {[1..k -> S] : k \in 0..n}

Init ==
    \E f \in Formats :
        \E lines \in SeqsUpTo(LinesOf(f), MaxLines) :
            /\ NewReader(f, lines)
            /\ entries = <<>>
            /\ NoPipeline

Next == MspNext \/ SptxtNext

Spec == Init /\ [][Next]_vars

----------------------------------------------------------------------------
(* Reading the histories *)

\* the indices of the lines the k-th Next call consumed
LinesOfCall(k) == (calls[k].from + 1)..calls[k].to

\* what a record is made of: a consumed line parsed as a named header field
\* or as a peak
ContentFates == {"name", "mw", "precursor", "comment", "count", "peak"}

\* the line starts with one of the header prefixes of format f
IsHeaderLine(f, line) ==
    \/ HasPrefix(line, PfxName)
    \/ HasPrefix(line, PfxMW)
    \/ HasPrefix(line, PfxComment)
    \/ HasPrefix(line, CountPrefix(f))
    \/ (f = "sptxt" /\ HasPrefix(line, PfxPrecursorMZ))

\* the line has the Name prefix but not the shape SEQUENCE/<integer>
MalformedName(line) ==
    /\ HasPrefix(line, PfxName)
    /\ LET name  == TrimPrefix(line, PfxName)
           slash == Index(name, "/")
       IN  \/ slash < 0
           \/ Index(SubSeq(name, slash + 2, Len(name)), "/") >= 0
           \/ ~Atoi(SubSeq(name, slash + 2, Len(name))).ok

\* the line has format f's peak-count prefix and a value that is no integer
MalformedCount(f, line) ==
    /\ HasPrefix(line, CountPrefix(f))
    /\ ~Atoi(TrimPrefix(line, CountPrefix(f))).ok

----------------------------------------------------------------------------
(* Properties of arbitrary streams *)

\* C4: a record declaring N >= 0 peaks consumes exactly its N peak lines: the
\* Next call that completes a named record consumes no header line of the
\* next record (every header line after the record's last peak line, or after
\* its count line when N = 0, is left to be parsed as a header line).
C4_NoLineDiscarded ==
    \A k \in 1..Len(calls) :
        (\E j \in LinesOfCall(k) : fate[j] = "name")
        => \A i \in LinesOfCall(k) :
               fate[i] = "discard" => ~IsHeaderLine(format, TrimSpace(input[i]))

\* C5: when the stream ends during a Next call that has read a header field or
\* a peak of a record without error, that call returns true (the partial
\* record is yielded); a call that starts at the end of the stream returns
\* false.
C5_PartialRecordYielded ==
    \A k \in 1..Len(calls) :
        /\ ( /\ calls[k].to = Len(input)
             /\ calls[k].out # "err"
             /\ \E i \in LinesOfCall(k) : fate[i] \in ContentFates )
           => calls[k].ret
        /\ calls[k].from = Len(input) => ~calls[k].ret

\* C6: the Next call that reads a malformed Name line or a malformed peak-count
\* line, or that reads in the PEAKS state a line that is no well-formed peak
\* line, returns false with Spectrum() nil and Err() set; and Err() is set only
\* if some call failed.
C6_MalformedLineFails ==
    /\ \A k \in 1..Len(calls) :
           (\E i \in LinesOfCall(k) :
                \/ MalformedName(TrimSpace(input[i]))
                \/ MalformedCount(format, TrimSpace(input[i])))
           => /\ ~calls[k].ret
              /\ calls[k].out = "err"
              /\ (k = Len(calls) => currentSpec = NilSpec /\ err # NoErr)
    /\ (err # NoErr) => \E k \in 1..Len(calls) : calls[k].out = "err"

\* C7: once a Next call has failed with a parse error, every later Next call
\* returns false.
C7_ErrorEndsStream ==
    \A k \in 1..Len(calls) :
        \A j \in 1..Len(calls) :
            (k < j /\ calls[k].out = "err") => ~calls[j].ret

----------------------------------------------------------------------------
(* Format B Name lines with inline modifications *)

\* bound on the length of an arbitrary raw sequence literal
MaxRawLen == 5

\* the characters an arbitrary raw sequence literal is made of
RawChars == {"n", "A", "[", "]", "1", "."}

\* the literal of the specification's scenario 3
ScenarioRaw == <<"n", "[", "3", "0", "5", "]", "A", "C", "[", "1", "6", "0", "]", "D", "E">>

RawLiterals == SeqsUpTo(RawChars, MaxRawLen) \cup {ScenarioRaw}

InitInline ==
    \E raw \in RawLiterals :
        /\ NewReader("sptxt", <<PfxName \o raw \o <<"/", "2">> >>)
        /\ entries = <<>>
        /\ NoPipeline

SpecInline == InitInline /\ [][SptxtNext]_vars

\* the raw sequence literal of the Name line of a one-line stream
RawOf(line) == SubSeq(line, Len(PfxName) + 1, Len(line) - 2)

\* Reference reading of a raw literal, one character at a time.
\* RefNumEnd: the index of the "]" closing a number that started after a "[",
\* 0 if the characters from i on do not complete one; st is what has been read
\* of the number: "open", "int", "dot" or "frac"
RECURSIVE RefNumEnd(_, _, _)
RefNumEnd(s, i, st) ==
    IF i > Len(s) THEN 0
    ELSE IF IsDigit(s[i])
    THEN RefNumEnd(s, i + 1, IF st \in {"open", "int"} THEN "int" ELSE "frac")
    ELSE IF s[i] = "." /\ st = "int" THEN RefNumEnd(s, i + 1, "dot")
    ELSE IF s[i] = "]" /\ st \in {"int", "frac"} THEN i
    ELSE 0

\* the index of the last character of a [number] token starting at i, else 0
RefTokenEnd(s, i) ==
    IF i <= Len(s) /\ s[i] = "[" THEN RefNumEnd(s, i + 1, "open") ELSE 0

\* the cleaned sequence and, per bracket token in order, the position the
\* specification assigns to it: -1 after "n" or no letter, else the 0-based index in
\* the cleaned sequence of the residue the bracket follows
RECURSIVE RefScan(_, _, _, _)
RefScan(s, i, clean, where) ==
    IF i > Len(s) THEN [sequence |-> clean, positions |-> where]
    ELSE IF RefTokenEnd(s, i) > 0
    THEN RefScan(s, RefTokenEnd(s, i) + 1, clean, Append(where, -1))
    ELSE IF IsLetter(s[i]) /\ RefTokenEnd(s, i + 1) > 0
    THEN IF s[i] = "n"
         THEN RefScan(s, RefTokenEnd(s, i + 1) + 1, clean, Append(where, -1))
         ELSE RefScan(s, RefTokenEnd(s, i + 1) + 1, Append(clean, s[i]),
                      Append(where, Len(clean)))
    ELSE RefScan(s, i + 1, Append(clean, s[i]), where)

RefInline(raw) == RefScan(raw, 1, <<>>, <<>>)

\* the first Next call returned a Spectrum
FirstYielded == Len(calls) >= 1 /\ calls[1].ret

\* C2: every positional inline modification is recorded at the 0-based index,
\* in the cleaned sequence, of the residue its bracket follows.
C2_PositionalIndex ==
    FirstYielded =>
        LET ref  == RefInline(RawOf(input[1]))
            mods == yielded[1].Modifications
        IN  \A j \in 1..Len(mods) :
                (j <= Len(ref.positions) /\ ref.positions[j] >= 0)
                => mods[j].Position = ref.positions[j]

\* C3: the cleaned sequence is the raw literal without its [number] tokens and
\* without the "n" before one, every other character kept in order; there is
\* one modification per bracket token, and it has position -1 exactly when
\* its bracket follows "n" or no letter.
C3_CleanedSequence ==
    FirstYielded =>
        LET ref  == RefInline(RawOf(input[1]))
            mods == yielded[1].Modifications
        IN  /\ yielded[1].Sequence = ref.sequence
            /\ Len(mods) = Len(ref.positions)
            /\ \A j \in 1..Len(mods) :
                   (mods[j].Position = -1) <=> (ref.positions[j] = -1)

\* C3 witness: a Name line with an N-terminal and a positional bracket has
\* been parsed into a sequence of several residues.
C3_Witness ==
    /\ FirstYielded
    /\ Len(yielded[1].Sequence) >= 2
    /\ Len(yielded[1].Modifications) = 2
    /\ yielded[1].Modifications[1].Position = -1
    /\ yielded[1].Modifications[2].Position >= 0

----------------------------------------------------------------------------
(* Streams of well-formed records *)

\* bound on the number of records of a well-formed stream
MaxRecords == 2

\* a decimal literal for v >= 0 units of 1/Scale: the integer part and, unless
\* it is zero, the fraction without trailing zeros
RECURSIVE FracChars(_, _)
FracChars(r, n) ==
    IF r = 0 \/ n = 0 THEN <<>>
    ELSE <<DigitChar(r \div Pow10(n - 1))>> \o FracChars(r % Pow10(n - 1), n - 1)

RenderDecimal(v) ==
    NatToChars(v \div Scale)
        \o (IF v % Scale = 0 THEN <<>> ELSE <<".">> \o FracChars(v % Scale, ScaleDigits))

\* the peaks a well-formed record is made of: m/z 100.5 intensity 5, and
\* m/z 7.25 intensity 0.5 annotated y1
PeakPlain     == [mz |-> 100 * Scale + Scale \div 2, intensity |-> 5 * Scale,
                  annot |-> <<>>]
PeakAnnotated == [mz |-> 7 * Scale + Scale \div 4, intensity |-> Scale \div 2,
                  annot |-> <<"y", "1">>]

PeakLists ==
    {<<PeakPlain>>, <<PeakPlain, PeakAnnotated>>, <<PeakAnnotated, PeakPlain>>}

\* a record: its sequence and charge, its peaks, whether a blank line follows
RecordShapes ==
    [seq : {<<"A", "C">>, <<"D">>}, charge : {1, 2}, peaks : PeakLists,
     blank : BOOLEAN]

\* the peak line of either format (Format A quotes the annotation)
RenderPeak(f, pk) ==
    RenderDecimal(pk.mz) \o <<"\t">> \o RenderDecimal(pk.intensity)
        \o (IF pk.annot = <<>> THEN <<>>
            ELSE IF f = "msp" THEN <<"\t", "\"">> \o pk.annot \o <<"\"">>
            ELSE <<"\t">> \o pk.annot)

\* the lines of one record
RenderRecord(f, rec) ==
    <<PfxName \o rec.seq \o <<"/">> \o NatToChars(rec.charge),
      LineCount(f, NatToChars(Len(rec.peaks)))>>
        \o [i \in 1..Len(rec.peaks) |-> RenderPeak(f, rec.peaks[i])]
        \o (IF rec.blank THEN <<LineBlank>> ELSE <<>>)

RECURSIVE Render(_, _)
Render(f, recs) ==
    IF recs = <<>> THEN <<>>
    ELSE RenderRecord(f, Head(recs)) \o Render(f, Tail(recs))

InitRecords ==
    \E f \in Formats :
        \E recs \in SeqsUpTo(RecordShapes, MaxRecords) :
            /\ NewReader(f, Render(f, recs))
            /\ entries = recs
            /\ NoPipeline

SpecRecords == InitRecords /\ [][Next]_vars

\* the peaks of a yielded Spectrum, as a record describes them
PeaksOf(spec) ==
    [i \in 1..Len(spec.Peaks) |->
        [mz |-> spec.Peaks[i].MZ, intensity |-> spec.Peaks[i].Intensity,
         annot |-> spec.Peaks[i].Annotation]]

\* C1: on a stream of k well-formed records the i-th Next call, i <= k,
\* returns true and yields the i-th record's sequence, charge and peaks in
\* input order; every later call returns false, and Err() stays nil.
C1_WellFormedStream ==
    /\ err = NoErr
    /\ \A j \in 1..Len(calls) :
           IF j <= Len(entries)
           THEN /\ calls[j].ret
                /\ Len(yielded) >= j
                /\ yielded[j].Sequence = entries[j].seq
                /\ yielded[j].Charge = entries[j].charge
                /\ PeaksOf(yielded[j]) = entries[j].peaks
           ELSE ~calls[j].ret
    /\ (Len(calls) >= 1 /\ calls[Len(calls)].ret) => currentSpec = yielded[Len(yielded)]

\* C1 witness: a stream of two records, the first with two peaks, has been
\* read to exhaustion: two calls returned true and a third returned false.
C1_Witness ==
    /\ Len(entries) = 2
    /\ Len(entries[1].peaks) = 2
    /\ Len(calls) = 3
    /\ calls[1].ret /\ calls[2].ret /\ ~calls[3].ret

----------------------------------------------------------------------------
(* Format B records with a Mods list in the Comment line *)

\* bound on the number of entries of a Mods list
MaxListed == 2

\* a decimal literal for an integer
IntToChars(n) == IF n < 0 THEN <<"-">> \o NatToChars(-n) ELSE NatToChars(n)

NameTMT             == <<"T", "M", "T">>
NameCarbamidomethyl == <<"C", "a", "r", "b", "a", "m", "i", "d", "o", "m", "e", "t", "h", "y", "l">>
NameHex             == <<"H", "e", "x">>
NameUnlisted        == <<"B", "o", "g", "u", "s">>

\* the entries a Mods list is made of: position, residue, name
ListedMods ==
    {[pos |-> -1, aa |-> "A", name |-> NameTMT],
     [pos |-> 0,  aa |-> "C", name |-> NameCarbamidomethyl],
     [pos |-> 1,  aa |-> "A", name |-> NameHex],
     [pos |-> 0,  aa |-> "C", name |-> NameUnlisted]}

\* the raw sequence literals of the Name line
ModsRaws ==
    {<<"C", "A">>,
     <<"C", "[", "1", "6", "0", "]", "A">>,
     <<"n", "[", "3", "0", "5", "]", "C", "A">>,
     <<"n", "[", "3", "0", "5", "]", "C", "[", "1", "6", "0", "]", "A">>}

\* "count/position,residue,name/position,residue,name..."
RECURSIVE RenderListed(_)
RenderListed(ms) ==
    IF ms = <<>> THEN <<>>
    ELSE <<"/">> \o IntToChars(Head(ms).pos) \o <<",", Head(ms).aa, ",">>
             \o Head(ms).name \o RenderListed(Tail(ms))

RenderMods(ms) == NatToChars(Len(ms)) \o RenderListed(ms)

InitMods ==
    \E raw \in ModsRaws :
        \E ms \in SeqsUpTo(ListedMods, MaxListed) :
            /\ NewReader("sptxt",
                         <<PfxName \o raw \o <<"/", "2">>,
                           PfxComment \o KeyMods \o <<"=">> \o RenderMods(ms),
                           LineCount("sptxt", <<"1">>),
                           LinePeakGood>>)
            /\ entries = <<[raw |-> raw, mods |-> ms]>>
            /\ NoPipeline

SpecMods == InitMods /\ [][SptxtNext]_vars

\* the indices of the modifications of mods at position p
AtPosition(mods, p) == {j \in 1..Len(mods) : mods[j].Position = p}

\* C8: for each entry of the Mods list whose name is in the modification
\* database: if a modification at its position was discovered inline, that
\* modification carries the listed name and the position has no second entry;
\* otherwise a modification (database mass, position, name) has been appended.
C8_ModsListApplied ==
    FirstYielded =>
        LET inline == ParseInlineModifications(entries[1].raw).mods
            final  == yielded[1].Modifications
            listed == entries[1].mods
        IN  \A i \in 1..Len(listed) :
                LET e    == listed[i]
                    mass == GetMass(modDB, e.name)
                    sole == \A k \in 1..Len(listed) : listed[k].pos = e.pos => k = i
                IN  (mass.ok /\ sole) =>
                        IF AtPosition(inline, e.pos) # {}
                        THEN /\ \E j \in AtPosition(final, e.pos) : final[j].Name = e.name
                             /\ Cardinality(AtPosition(final, e.pos))
                                    = Cardinality(AtPosition(inline, e.pos))
                        ELSE \E j \in 1..Len(final) :
                                 final[j] = Modification(mass.mass, e.pos, e.name)

----------------------------------------------------------------------------
(* Format A records with an arbitrary Comment line *)

\* bound on the number of key=value tokens of a Comment line
MaxTokens == 2

\* the mod field of a token that carries no modification
NoMod == Modification(0, 0, <<>>)

\* the tokens a Comment line is made of, each with the datum it carries:
\* kind "none" for a token that carries none (non-numeric value, malformed
\* position, name missing from the database, no "=")
CommentTokens ==
    {[text |-> <<"P", "a", "r", "e", "n", "t", "=", "4", "0", "0", ".", "5">>,
      kind |-> "parent", num |-> 400500000, mod |-> NoMod],
     [text |-> <<"P", "a", "r", "e", "n", "t", "=", "a", "b", "c">>,
      kind |-> "none", num |-> 0, mod |-> NoMod],
     [text |-> <<"C", "o", "l", "l", "i", "s", "i", "o", "n", "_", "e", "n", "e", "r", "g", "y", "=", "3", "5">>,
      kind |-> "ce", num |-> 35000000, mod |-> NoMod],
     [text |-> <<"C", "o", "l", "l", "i", "s", "i", "o", "n", "_", "e", "n", "e", "r", "g", "y", "=", "x">>,
      kind |-> "none", num |-> 0, mod |-> NoMod],
     [text |-> <<"i", "R", "T", "=", "6", "1", ".", "0", "1">>,
      kind |-> "rt", num |-> 61010000, mod |-> NoMod],
     [text |-> <<"i", "R", "T", "=", "6", ".", "1", ".", "0">>,
      kind |-> "none", num |-> 0, mod |-> NoMod],
     [text |-> <<"M", "o", "d", "s", "=", "1", "/", "-", "1", ",", "R", ",", "T", "M", "T">>,
      kind |-> "mod", num |-> 0, mod |-> Modification(229162932, -1, NameTMT)],
     [text |-> <<"M", "o", "d", "s", "=", "1", "/", "x", ",", "R", ",", "T", "M", "T">>,
      kind |-> "none", num |-> 0, mod |-> NoMod],
     [text |-> <<"M", "o", "d", "s", "=", "1", "/", "0", ",", "C", ",", "B", "o", "g", "u", "s">>,
      kind |-> "none", num |-> 0, mod |-> NoMod],
     [text |-> <<"M", "o", "d", "S", "t", "r", "i", "n", "g", "=", "A", "C", "/", "/", "H", "e", "x", "@", "C", "1", "/", "2">>,
      kind |-> "mod", num |-> 0, mod |-> Modification(162052824, 1, NameHex)],
     [text |-> <<"M", "o", "d", "S", "t", "r", "i", "n", "g", "=", "A", "C", "/", "/", "T", "M", "T", "@", "A", "-", "1", "/", "2">>,
      kind |-> "mod", num |-> 0, mod |-> Modification(229162932, -1, NameTMT)],
     [text |-> <<"M", "o", "d", "S", "t", "r", "i", "n", "g", "=", "A", "C", "/", "/", "H", "e", "x", "@", "C", "x", "/", "2">>,
      kind |-> "none", num |-> 0, mod |-> NoMod],
     [text |-> <<"M", "o", "d", "S", "t", "r", "i", "n", "g", "=", "A", "C", "/", "/", "B", "o", "g", "u", "s", "@", "C", "1", "/", "2">>,
      kind |-> "none", num |-> 0, mod |-> NoMod],
     [text |-> <<"P", "a", "r", "e", "n", "t">>,
      kind |-> "none", num |-> 0, mod |-> NoMod]}

RECURSIVE JoinTokens(_)
JoinTokens(ts) ==
    IF ts = <<>> THEN <<>>
    ELSE IF Len(ts) = 1 THEN Head(ts).text
    ELSE Head(ts).text \o <<" ">> \o JoinTokens(Tail(ts))

InitComment ==
    \E ts \in SeqsUpTo(CommentTokens, MaxTokens) :
        /\ NewReader("msp",
                     <<LineNameGood,
                       PfxComment \o JoinTokens(ts),
                       LineCount("msp", <<"1">>),
                       LinePeakGood>>)
        /\ entries = ts
        /\ NoPipeline

SpecComment == InitComment /\ [][MspNext]_vars

\* the data the tokens ts carry: the last value of each scalar kind as <<v>>
\* (<<>> when there is none), the modifications in order
RECURSIVE LastOfKind(_, _)
LastOfKind(ts, kind) ==
    IF ts = <<>> THEN <<>>
    ELSE IF ts[Len(ts)].kind = kind THEN <<ts[Len(ts)].num>>
    ELSE LastOfKind(SubSeq(ts, 1, Len(ts) - 1), kind)

RECURSIVE ModsOfTokens(_)
ModsOfTokens(ts) ==
    IF ts = <<>> THEN <<>>
    ELSE (IF Head(ts).kind = "mod" THEN <<Head(ts).mod>> ELSE <<>>)
             \o ModsOfTokens(Tail(ts))

\* C9: whatever the tokens of a Format A Comment line are, the Next call that
\* reads the record returns true and Err() stays nil; the Spectrum has the
\* record's sequence, charge and peak, the data of the well-formed tokens, and
\* nothing for the others.
C9_CommentNeverFails ==
    /\ err = NoErr
    /\ Len(calls) >= 1 =>
           /\ calls[1].ret
           /\ yielded[1].Sequence = <<"A", "C">>
           /\ yielded[1].Charge = 2
           /\ Len(yielded[1].Peaks) = 1
           /\ <<yielded[1].PrecursorMZ>>
                  = (IF LastOfKind(entries, "parent") = <<>> THEN <<0>>
                     ELSE LastOfKind(entries, "parent"))
           /\ yielded[1].CollisionEnergy = LastOfKind(entries, "ce")
           /\ yielded[1].RetentionTime = LastOfKind(entries, "rt")
           /\ yielded[1].Modifications = ModsOfTokens(entries)

\* C9 witness: a record whose Comment line has a token that carries no datum
\* and then a well-formed Mods token has been yielded.
C9_Witness ==
    /\ FirstYielded
    /\ Len(entries) = 2
    /\ entries[1].kind = "none"
    /\ entries[2].kind = "mod"
    /\ Len(yielded[1].Modifications) = 1

----------------------------------------------------------------------------
(* Format A entries and their validation *)

\* Spectrum.ArePeaksSorted with <= in place of <
ArePeaksSorted_Strict(s) ==
    \A i \in 2..Len(s.Peaks) : ~FLe(s.Peaks[i].MZ, s.Peaks[i - 1].MZ)

\* Spectrum.ArePeaksSorted
ArePeaksSorted(s) ==
    \A i \in 2..Len(s.Peaks) : ~FLt(s.Peaks[i].MZ, s.Peaks[i - 1].MZ)

\* one entry of Validate's errs: the rule violated and, for a peak rule, the
\* 0-based index the message names ("peak %d ..."), else -1
Violation(rule, i) == [rule |-> rule, peak |-> i]

\* the entries Validate collects for the peaks, without the NaN and Inf tests
RECURSIVE PeakErrs_FiniteOnly(_, _)
PeakErrs_FiniteOnly(s, i) ==
    IF i > Len(s.Peaks) THEN <<>>
    ELSE (IF FLe(s.Peaks[i].MZ, 0)
          THEN <<Violation("m/z must be positive", i - 1)>> ELSE <<>>)
         \o (IF FLt(s.Peaks[i].Intensity, 0)
             THEN <<Violation("intensity must be non-negative", i - 1)>> ELSE <<>>)
         \o PeakErrs_FiniteOnly(s, i + 1)

\* the entries Validate collects for the peaks from the i-th (1-based) on
RECURSIVE PeakErrs(_, _)
PeakErrs(s, i) ==
    IF i > Len(s.Peaks) THEN <<>>
    ELSE (IF IsNaN(s.Peaks[i].MZ) \/ IsInf(s.Peaks[i].MZ)
          THEN <<Violation("has invalid m/z", i - 1)>> ELSE <<>>)
         \o (IF IsNaN(s.Peaks[i].Intensity) \/ IsInf(s.Peaks[i].Intensity)
             THEN <<Violation("has invalid intensity", i - 1)>> ELSE <<>>)
         \o (IF FLe(s.Peaks[i].MZ, 0)
             THEN <<Violation("m/z must be positive", i - 1)>> ELSE <<>>)
         \o (IF FLt(s.Peaks[i].Intensity, 0)
             THEN <<Violation("intensity must be non-negative", i - 1)>> ELSE <<>>)
         \o PeakErrs(s, i + 1)

\* Spectrum.Validate: the entries of errs, which the returned error joins
\* with "; "; <<>> when it returns nil
Validate(s) ==
    (IF s.Sequence = <<>> THEN <<Violation("sequence is required", -1)>> ELSE <<>>)
    \o (IF s.Charge <= 0 THEN <<Violation("charge must be positive", -1)>> ELSE <<>>)
    \o (IF FLe(s.PrecursorMZ, 0)
        THEN <<Violation("precursor m/z must be positive", -1)>> ELSE <<>>)
    \o (IF Len(s.Peaks) = 0
        THEN <<Violation("at least one peak is required", -1)>> ELSE <<>>)
    \o (IF s.FragmentationMode = ""
        THEN <<Violation("fragmentation mode is required", -1)>> ELSE <<>>)
    \o (IF s.MassAnalyzer = ""
        THEN <<Violation("mass analyzer is required", -1)>> ELSE <<>>)
    \o PeakErrs(s, 1)
    \o (IF ~ArePeaksSorted(s)
        THEN <<Violation("peaks must be sorted by m/z", -1)>> ELSE <<>>)

\* the values the --fragmentation and --mass-analyzer flags take
FragmentationFlags == {"HCD", "CID", "read", ""}
MassAnalyzerFlags  == {"FT", "IT", ""}

\* convertMSP: fragmentation mode and mass analyzer from the flags, defaulted
\* to HCD and FT when neither the flag nor the file gives one
DefaultModes(spec, fragmentation, massAnalyzer) ==
    [spec EXCEPT
        !.FragmentationMode =
            IF fragmentation # "" /\ fragmentation # "read" THEN fragmentation
            ELSE IF @ = "" THEN "HCD" ELSE @,
        !.MassAnalyzer =
            IF massAnalyzer # "" THEN massAnalyzer
            ELSE IF @ = "" THEN "FT" ELSE @]

\* a decimal literal for v units of 1/Scale
RenderSigned(v) == IF v < 0 THEN <<"-">> \o RenderDecimal(-v) ELSE RenderDecimal(v)

PeakScenario == [mz |-> 100 * Scale, intensity |-> 1000 * Scale, annot |-> <<"y", "1">>]
PeakZeroMZ   == [mz |-> 0, intensity |-> 5 * Scale, annot |-> <<>>]
PeakNegative == [mz |-> 100 * Scale, intensity |-> -Scale, annot |-> <<>>]

\* the entries of Format A: the scenario's PEPTIDE/2 with Parent=400.5 and one
\* peak among them
EntryShapes ==
    [seq    : {<<"P", "E", "P", "T", "I", "D", "E">>, <<"A", "C">>, <<>>},
     charge : {-1, 0, 1, 2},
     parent : {400 * Scale + Scale \div 2, Scale \div 4, 0, -Scale},
     peaks  : {<<>>, <<PeakScenario>>, <<PeakZeroMZ>>, <<PeakNegative>>,
               <<PeakAnnotated, PeakPlain>>, <<PeakPlain, PeakAnnotated>>,
               <<PeakPlain, PeakPlain>>}]

RenderEntryPeak(pk) ==
    RenderSigned(pk.mz) \o <<" ">> \o RenderSigned(pk.intensity)
        \o (IF pk.annot = <<>> THEN <<>> ELSE <<" ", "\"">> \o pk.annot \o <<"\"">>)

RenderEntry(e) ==
    <<PfxName \o e.seq \o <<"/">> \o IntToChars(e.charge),
      PfxComment \o KeyParent \o <<"=">> \o RenderSigned(e.parent),
      LineCount("msp", NatToChars(Len(e.peaks)))>>
        \o [i \in 1..Len(e.peaks) |-> RenderEntryPeak(e.peaks[i])]

InitEntry ==
    \E e \in EntryShapes :
        /\ NewReader("msp", RenderEntry(e))
        /\ entries = <<e>>
        /\ NoPipeline

SpecEntry == InitEntry /\ [][MspNext]_vars

\* the first Next call returned the Spectrum {SEQ, z, p} of entry e, and that
\* Spectrum passes validation once its modes are defaulted, whatever the flags
EntryYieldedValid(e) ==
    /\ calls[1].ret
    /\ yielded[1].Sequence = e.seq
    /\ yielded[1].Charge = e.charge
    /\ yielded[1].PrecursorMZ = e.parent
    /\ \A fragmentation \in FragmentationFlags, massAnalyzer \in MassAnalyzerFlags :
           Validate(DefaultModes(yielded[1], fragmentation, massAnalyzer)) = <<>>

ValidEntry(e) ==
    /\ e.seq # <<>>
    /\ e.charge >= 1
    /\ e.parent > 0
    /\ Len(e.peaks) >= 1
    /\ \A i \in 1..Len(e.peaks) : e.peaks[i].mz > 0 /\ e.peaks[i].intensity >= 0
    /\ \A i \in 2..Len(e.peaks) : e.peaks[i - 1].mz <= e.peaks[i].mz

----------------------------------------------------------------------------
(* pkg/filter: the filter and adjustment pipeline *)

\* the float64 product a * b of two values in units of 1/Scale
FMul(a, b) ==
    (a \div Scale) * b + (a % Scale) * (b \div Scale)
        + ((a % Scale) * (b % Scale)) \div Scale

\* the float64 quotient d / float64(n), n > 0
Quot(d, n) == IF d >= 0 THEN d \div n ELSE -((-d) \div n)

\* n decimal digits of r, zero-padded
RECURSIVE FixedDigits(_, _)
FixedDigits(r, n) ==
    IF n = 0 THEN <<>>
    ELSE <<DigitChar(r \div Pow10(n - 1))>> \o FixedDigits(r % Pow10(n - 1), n - 1)

\* fmt.Sprintf("%.6f", v)
FormatF6(v) ==
    LET a == IF v < 0 THEN -v ELSE v
    IN  (IF v < 0 THEN <<"-">> ELSE <<>>)
            \o NatToChars(a \div Scale) \o <<".">> \o FixedDigits(a % Scale, ScaleDigits)

\* matchesIonType with the return inside the loop: only the first ion type
\* is tried
MatchesIonType_FirstOnly(annotation, ionTypes) ==
    /\ annotation # <<>>
    /\ Len(ionTypes) > 0
    /\ HasPrefix(annotation, ionTypes[1])

\* matchesIonType
MatchesIonType(annotation, ionTypes) ==
    /\ annotation # <<>>
    /\ \E i \in 1..Len(ionTypes) : HasPrefix(annotation, ionTypes[i])

\* Config.filterByIonType: spec.Peaks afterwards
FilterByIonType(c, peaks) ==
    LET Keep(peak) == MatchesIonType(peak.Annotation, c.IonTypes)
    IN  IF Len(c.IonTypes) = 0 THEN peaks ELSE SelectSeq(peaks, Keep)

\* the maximum intensity Config.filterByIntensity finds from peak i on,
\* starting from maxIntensity
RECURSIVE MaxIntensity(_, _, _)
MaxIntensity(peaks, i, maxIntensity) ==
    IF i > Len(peaks) THEN maxIntensity
    ELSE MaxIntensity(peaks, i + 1,
                      IF FLt(maxIntensity, peaks[i].Intensity)
                      THEN peaks[i].Intensity ELSE maxIntensity)

\* threshold := (c.IntensityCutoff / 100.0) * maxIntensity
Threshold(c, maxIntensity) == FMul(Quot(c.IntensityCutoff, 100), maxIntensity)

\* Config.filterByIntensity with > in place of >=
FilterByIntensity_Strict(c, peaks) ==
    LET threshold  == Threshold(c, MaxIntensity(peaks, 1, 0))
        Keep(peak) == FLt(threshold, peak.Intensity)
    IN  IF Len(peaks) = 0 THEN peaks ELSE SelectSeq(peaks, Keep)

\* Config.filterByIntensity: spec.Peaks afterwards
FilterByIntensity(c, peaks) ==
    LET threshold  == Threshold(c, MaxIntensity(peaks, 1, 0))
        Keep(peak) == FLe(threshold, peak.Intensity)
    IN  IF Len(peaks) = 0 THEN peaks ELSE SelectSeq(peaks, Keep)

\* the less functions handed to sort.Slice: "MoreIntense" is filterTopN's
\* (descending intensity), "LowerMZ" is SortPeaks' (ascending m/z);
\* "LessIntense" orders by ascending intensity
SliceLess(less, p, q) ==
    CASE less = "MoreIntense" -> FLt(q.Intensity, p.Intensity)
      [] less = "LowerMZ"     -> FLt(p.MZ, q.MZ)
      [] less = "LessIntense" -> FLt(p.Intensity, q.Intensity)

\* sort.Slice(s, less): a slice in which no element is less than the one
\* before it is left as it is; otherwise, the sort not being stable, every
\* arrangement of s in which no element is less than one before it is a
\* possible outcome
SortSlice(s, less) ==
    IF \A i \in 2..Len(s) : ~SliceLess(less, s[i], s[i - 1]) THEN {s}
    ELSE {q \in {[i \in 1..Len(s) |-> s[f[i]]] : f \in Permutations(1..Len(s))} :
             \A i, j \in 1..Len(s) : i < j => ~SliceLess(less, q[j], q[i])}

\* Config.filterTopN sorting by ascending intensity
FilterTopN_Ascending(c, peaks) ==
    IF Len(peaks) <= c.TopN THEN {peaks}
    ELSE {SubSeq(q, 1, c.TopN) : q \in SortSlice(peaks, "LessIntense")}

\* Config.filterTopN returning early only for fewer than TopN peaks
FilterTopN_OffByOne(c, peaks) ==
    IF Len(peaks) < c.TopN THEN {peaks}
    ELSE {SubSeq(q, 1, c.TopN) : q \in SortSlice(peaks, "MoreIntense")}

\* Config.filterTopN: the possible spec.Peaks afterwards
FilterTopN(c, peaks) ==
    IF Len(peaks) <= c.TopN THEN {peaks}
    ELSE {SubSeq(q, 1, c.TopN) : q \in SortSlice(peaks, "MoreIntense")}

\* parseIonAnnotation, regexp ^([a-z])(\d+)(?:\^(\d+))? : [ok, ionType,
\* position, charge]
ParseIonAnnotation(annotation) ==
    LET n      == DigitRun(annotation, 2)
        k      == 2 + n
        m      == IF k <= Len(annotation) /\ annotation[k] = "^"
                  THEN DigitRun(annotation, k + 1) ELSE 0
    IN  IF Len(annotation) >= 2 /\ annotation[1] \in LowerLetters /\ n > 0
        THEN [ok       |-> TRUE,
              ionType  |-> annotation[1],
              position |-> DigitsValue(SubSeq(annotation, 2, 1 + n), 0),
              charge   |-> IF m > 0
                           THEN DigitsValue(SubSeq(annotation, k + 1, k + m), 0)
                           ELSE 1]
        ELSE [ok |-> FALSE, ionType |-> "", position |-> 0, charge |-> 0]

\* the loop over spec.Modifications of adjustFragmentMasses for one peak:
\* peak.MZ after the modifications from the j-th on
RECURSIVE AdjustMZ(_, _, _, _, _)
AdjustMZ(c, spec, ionInfo, mz, j) ==
    IF j > Len(spec.Modifications) THEN mz
    ELSE LET mod             == spec.Modifications[j]
             deltaMass       == c.NewModMass - c.OldModMass
             modPosFromCTerm == Len(spec.Sequence) - mod.Position - 1
             shouldAdjust    ==
                 \/ ionInfo.ionType = "b" /\ ionInfo.position >= mod.Position
                 \/ ionInfo.ionType = "y" /\ ionInfo.position >= modPosFromCTerm
         IN  IF FormatF6(mod.Mass) # FormatF6(c.OldModMass)
             THEN AdjustMZ(c, spec, ionInfo, mz, j + 1)
             ELSE AdjustMZ(c, spec, ionInfo,
                           IF shouldAdjust THEN mz + Quot(deltaMass, ionInfo.charge)
                           ELSE mz,
                           j + 1)

\* Config.adjustFragmentMasses taking a peak whose annotation is empty or
\* does not parse for the singly charged b ion of the whole sequence
AdjustFragmentMasses_NoSkip(c, spec, peaks) ==
    IF Len(spec.Modifications) = 0 THEN peaks
    ELSE [i \in 1..Len(peaks) |->
             LET parsed  == ParseIonAnnotation(peaks[i].Annotation)
                 ionInfo == IF parsed.ok THEN parsed
                            ELSE [ok |-> TRUE, ionType |-> "b",
                                  position |-> Len(spec.Sequence), charge |-> 1]
             IN  [peaks[i] EXCEPT !.MZ = AdjustMZ(c, spec, ionInfo, @, 1)]]

\* Config.adjustFragmentMasses on a spectrum whose peaks are peaks: spec.Peaks
\* afterwards
AdjustFragmentMasses(c, spec, peaks) ==
    IF Len(spec.Modifications) = 0 THEN peaks
    ELSE [i \in 1..Len(peaks) |->
             LET ionInfo == ParseIonAnnotation(peaks[i].Annotation)
             IN  IF peaks[i].Annotation = <<>> \/ ~ionInfo.ok THEN peaks[i]
                 ELSE [peaks[i] EXCEPT !.MZ = AdjustMZ(c, spec, ionInfo, @, 1)]]

\* Spectrum.SortPeaks left out
SortPeaks_Skipped(peaks) == {peaks}

\* Spectrum.SortPeaks: the possible s.Peaks afterwards
SortPeaks(peaks) == SortSlice(peaks, "LowerMZ")

\* one run of Config.Apply: the peaks it was given and the peaks after each
\* step, out being spec.Peaks when it returns
ApplyRun(c, in, ion, cut, top, adj, out) ==
    [config |-> c, in |-> in, ion |-> ion, cut |-> cut, top |-> top,
     adj |-> adj, out |-> out]

\* Config.Apply with the intensity cutoff before the ion-type filter
ApplyOutcomes_CutoffFirst(c, spec) ==
    LET cut0 == IF c.IntensityCutoff > 0 THEN FilterByIntensity(c, spec.Peaks)
                ELSE spec.Peaks
        ion  == IF Len(c.IonTypes) > 0 THEN FilterByIonType(c, cut0) ELSE cut0
        tops == IF c.TopN > 0 THEN FilterTopN(c, ion) ELSE {ion}
        Adj(top) == IF c.OldModMass # 0 /\ c.NewModMass # 0
                    THEN AdjustFragmentMasses(c, spec, top) ELSE top
    IN  UNION {{ApplyRun(c, spec.Peaks, ion, ion, top, Adj(top), out) :
                   out \in SortPeaks(Adj(top))} : top \in tops}

\* Config.Apply: its possible runs (the error returned is nil on every path)
ApplyOutcomes(c, spec) ==
    LET ion  == IF Len(c.IonTypes) > 0 THEN FilterByIonType(c, spec.Peaks)
                ELSE spec.Peaks
        cut  == IF c.IntensityCutoff > 0 THEN FilterByIntensity(c, ion) ELSE ion
        tops == IF c.TopN > 0 THEN FilterTopN(c, cut) ELSE {cut}
        Adj(top) == IF c.OldModMass # 0 /\ c.NewModMass # 0
                    THEN AdjustFragmentMasses(c, spec, top) ELSE top
    IN  UNION {{ApplyRun(c, spec.Peaks, ion, cut, top, Adj(top), out) :
                   out \in SortPeaks(Adj(top))} : top \in tops}

\* bound on the number of Config.Apply calls on one Spectrum
MaxApplies == 2

\* filterConfig.Apply(spec) on the reader's current Spectrum
Apply ==
    /\ Len(stages) < MaxApplies
    /\ \E r \in ApplyOutcomes(config, currentSpec) :
           /\ currentSpec' = [currentSpec EXCEPT !.Peaks = r.out]
           /\ stages' = Append(stages, r)
    /\ UNCHANGED <<format, input, pos, lineNum, err, modDB, calls, yielded, fate,
                   entries, config, verdict, sinkVars>>

----------------------------------------------------------------------------
(* Spectra given to the pipeline *)

\* bound on the number of peaks of a Spectrum given to the pipeline
MaxPeaks == 3

\* a reader that has read nothing
IdleReader ==
    /\ format = "msp"
    /\ input = <<>>
    /\ pos = 0
    /\ lineNum = 0
    /\ err = NoErr
    /\ modDB = DefaultModDatabase
    /\ calls = <<>>
    /\ yielded = <<>>
    /\ fate = <<>>
    /\ entries = <<>>

\* the peaks a Spectrum given to the pipeline is made of.  The drivers call
\* RemoveZeroIntensityPeaks before Apply, so every intensity is positive.
\* Two peaks tie in intensity, two in m/z, one has no annotation and one an
\* annotation that is not an ion annotation.
FilterPeaks ==
    {Peak(300 * Scale, 10 * Scale, <<"b", "2">>),
     Peak(100 * Scale, 4 * Scale, <<"y", "1">>),
     Peak(200 * Scale, 4 * Scale, <<"y", "2", "^", "2">>),
     Peak(100 * Scale, 2 * Scale, <<"a", "1">>),
     Peak(150 * Scale, 5 * Scale, <<>>),
     Peak(250 * Scale, 10 * Scale, <<"?">>)}

MassTMT    == GetMass(DefaultModDatabase, NameTMT).mass
MassTMTPro == GetMass(DefaultModDatabase, <<"T", "M", "T", "P", "r", "o">>).mass
MassHex    == GetMass(DefaultModDatabase, NameHex).mass

FilterMods ==
    {<<>>,
     <<Modification(MassTMT, 0, NameTMT)>>,
     <<Modification(MassTMT, 2, NameTMT), Modification(MassHex, 0, NameHex)>>}

\* the configurations of a run: ion types, cutoff in percent, top-N, and the
\* old and new modification mass of the fragment adjustment
FilterConfigs ==
    [IonTypes        : {<<>>, << <<"y">> >>, << <<"B">>, <<"b">> >>},
     IntensityCutoff : {0, 50 * Scale, 100 * Scale},
     TopN            : {0, 2},
     OldModMass      : {0, MassTMT},
     NewModMass      : {0, MassTMTPro}]

InitFilter ==
    \E c \in FilterConfigs, peaks \in SeqsUpTo(FilterPeaks, MaxPeaks),
       mods \in FilterMods :
        /\ IdleReader
        /\ currentSpec = [NewSpectrum("msp") EXCEPT
                              !.Sequence = <<"A", "C", "D">>,
                              !.Charge = 2,
                              !.PrecursorMZ = 400 * Scale,
                              !.Peaks = peaks,
                              !.Modifications = mods,
                              !.FragmentationMode = "HCD",
                              !.MassAnalyzer = "FT"]
        /\ config = c
        /\ stages = <<>>
        /\ verdict = <<>>
        /\ Offline

SpecFilter == InitFilter /\ [][Apply]_vars

----------------------------------------------------------------------------
(* Properties of the pipeline *)

\* how often x occurs in the sequence s
Count(s, x) == Cardinality({i \in 1..Len(s) : s[i] = x})

\* s and t hold the same elements, each as often
SameBag(s, t) ==
    /\ Len(s) = Len(t)
    /\ \A i \in 1..Len(s) : Count(s, s[i]) = Count(t, s[i])

\* every element of s occurs in t at least as often
SubBag(s, t) == \A i \in 1..Len(s) : Count(s, s[i]) <= Count(t, s[i])

\* the elements of s for which Test holds, in order
Kept(s, Test(_)) ==
    LET idx == {i \in 1..Len(s) : Test(s[i])}
    IN  [k \in 1..Cardinality(idx) |->
            s[CHOOSE i \in idx : Cardinality({j \in idx : j <= i}) = k]]

\* text a starts with text t
StartsWith(a, t) == Len(t) <= Len(a) /\ \A i \in 1..Len(t) : a[i] = t[i]

\* the peaks an ion-type allow-list keeps
RefIonKept(peaks, ionTypes) ==
    LET Allowed(peak) ==
            /\ peak.Annotation # <<>>
            /\ \E i \in 1..Len(ionTypes) : StartsWith(peak.Annotation, ionTypes[i])
    IN  Kept(peaks, Allowed)

\* the largest intensity among peaks (not empty)
TrueMax(peaks) ==
    CHOOSE m \in {peaks[i].Intensity : i \in 1..Len(peaks)} :
        \A i \in 1..Len(peaks) : peaks[i].Intensity <= m

\* the peaks a cutoff of pct percent (a whole number) keeps
RefCutKept(peaks, pct) ==
    LET AtLeast(peak) == peak.Intensity * 100 >= pct * TrueMax(peaks)
    IN  IF peaks = <<>> THEN <<>> ELSE Kept(peaks, AtLeast)

Percent(c) == c.IntensityCutoff \div Scale

\* C11: a second Config.Apply with the same configuration on the output of
\* the first changes nothing: same peaks, m/z, intensities and order.
C11_Idempotent ==
    \A k \in 2..Len(stages) : stages[k].out = stages[k - 1].out

\* the total shift C12 states for a peak with parsed annotation ionInfo, over
\* the modifications from the j-th on
RECURSIVE StatedShift(_, _, _, _, _)
StatedShift(c, seqLen, ionInfo, mods, j) ==
    IF j > Len(mods) THEN 0
    ELSE (IF /\ mods[j].Mass = c.OldModMass
             /\ \/ ionInfo.ionType = "b" /\ ionInfo.position >= mods[j].Position
                \/ ionInfo.ionType # "b"
                   /\ ionInfo.position >= seqLen - mods[j].Position - 1
          THEN Quot(c.NewModMass - c.OldModMass, ionInfo.charge)
          ELSE 0)
         + StatedShift(c, seqLen, ionInfo, mods, j + 1)

\* C12: with old and new mass both non-zero, every peak whose annotation
\* parses is shifted by (new - old)/charge once per modification of the old
\* mass for which it is a b ion with position >= the modification's position
\* or any other ion with position >= sequenceLength - position - 1.
C12_FragmentShift ==
    \A k \in 1..Len(stages) :
        LET r == stages[k]
            c == r.config
        IN  (c.OldModMass # 0 /\ c.NewModMass # 0) =>
                \A i \in 1..Len(r.top) :
                    LET ionInfo == ParseIonAnnotation(r.top[i].Annotation)
                    IN  ionInfo.ok =>
                            r.adj[i].MZ = r.top[i].MZ
                                + StatedShift(c, Len(currentSpec.Sequence), ionInfo,
                                              currentSpec.Modifications, 1)

\* C13: after Config.Apply returns, whatever the configuration, the
\* Spectrum's peaks are in non-decreasing m/z order and are a permutation of
\* the peaks that survived the steps; ArePeaksSorted holds of them.
C13_SortedPermutation ==
    Len(stages) >= 1 =>
        /\ \A k \in 1..Len(stages) :
               /\ \A i \in 2..Len(stages[k].out) :
                      stages[k].out[i - 1].MZ <= stages[k].out[i].MZ
               /\ SameBag(stages[k].out, stages[k].adj)
        /\ currentSpec.Peaks = stages[Len(stages)].out
        /\ ArePeaksSorted(currentSpec)

\* C13 witness: Apply has run with a configuration in which no step fires on
\* peaks that were not in m/z order.
C13_Witness ==
    /\ Len(stages) >= 1
    /\ config.IonTypes = <<>> /\ config.IntensityCutoff = 0 /\ config.TopN = 0
    /\ config.OldModMass = 0
    /\ \E i \in 2..Len(stages[1].in) : stages[1].in[i].MZ < stages[1].in[i - 1].MZ
    /\ stages[1].out # stages[1].in

\* C14: the steps run in the order ion-type filter, cutoff, top-N,
\* adjustment, re-sort: the cutoff is taken over the peaks the ion-type filter
\* kept, top-N selects among the peaks the cutoff kept, the adjustment changes
\* nothing but the m/z of the peaks top-N kept, and the output rearranges those.
C14_StepOrder ==
    \A k \in 1..Len(stages) :
        LET r == stages[k]
            c == r.config
        IN  /\ r.ion = IF c.IonTypes # <<>> THEN RefIonKept(r.in, c.IonTypes) ELSE r.in
            /\ r.cut = IF c.IntensityCutoff > 0 THEN RefCutKept(r.ion, Percent(c))
                       ELSE r.ion
            /\ IF c.TopN > 0
               THEN /\ Len(r.top) = (IF Len(r.cut) > c.TopN THEN c.TopN ELSE Len(r.cut))
                    /\ SubBag(r.top, r.cut)
               ELSE r.top = r.cut
            /\ Len(r.adj) = Len(r.top)
            /\ \A i \in 1..Len(r.top) : [r.adj[i] EXCEPT !.MZ = r.top[i].MZ] = r.top[i]
            /\ SameBag(r.out, r.adj)

\* C14 witness: Apply has run with every step configured, the ion-type filter
\* dropped the most intense peak, and the cutoff kept a peak that is below the
\* threshold taken over the original list.
C14_Witness ==
    /\ Len(stages) >= 1
    /\ config.IonTypes # <<>> /\ config.IntensityCutoff > 0 /\ config.TopN > 0
    /\ config.OldModMass # 0 /\ config.NewModMass # 0
    /\ stages[1].ion # <<>>
    /\ TrueMax(stages[1].ion) < TrueMax(stages[1].in)
    /\ \E i \in 1..Len(stages[1].cut) :
           stages[1].cut[i].Intensity * 100 < Percent(config) * TrueMax(stages[1].in)

\* C15: with a non-empty ion-type list the ion-type filter keeps exactly the
\* peaks whose annotation is not empty and starts, case-sensitively, with one
\* of the prefixes, in their original order.
C15_IonTypeFilter ==
    \A k \in 1..Len(stages) :
        stages[k].config.IonTypes # <<>>
            => stages[k].ion = RefIonKept(stages[k].in, stages[k].config.IonTypes)

\* C15 witness: a two-prefix list, of which only the second matches a peak,
\* has been applied to peaks one of which has no annotation.
C15_Witness ==
    /\ Len(stages) >= 1
    /\ Len(config.IonTypes) = 2
    /\ \E i \in 1..Len(stages[1].in) : stages[1].in[i].Annotation = <<>>
    /\ \E i \in 1..Len(stages[1].ion) :
           /\ ~StartsWith(stages[1].ion[i].Annotation, config.IonTypes[1])
           /\ StartsWith(stages[1].ion[i].Annotation, config.IonTypes[2])

\* C16: with cutoff > 0 the intensity cutoff keeps exactly the peaks whose
\* intensity is >= cutoff percent of the largest intensity among the current
\* peaks, in order; an empty list stays empty.
C16_IntensityCutoff ==
    \A k \in 1..Len(stages) :
        stages[k].config.IntensityCutoff > 0
            => stages[k].cut = RefCutKept(stages[k].ion, Percent(stages[k].config))

\* C16 witness: a cutoff has dropped a peak and kept one that is exactly at
\* the threshold.
C16_Witness ==
    /\ Len(stages) >= 1
    /\ config.IntensityCutoff > 0
    /\ Len(stages[1].cut) < Len(stages[1].ion)
    /\ \E i \in 1..Len(stages[1].cut) :
           stages[1].cut[i].Intensity * 100 = Percent(config) * TrueMax(stages[1].ion)

\* the peaks of cut that are not in top
Discarded(cut, top) == {cut[j] : j \in {i \in 1..Len(cut) : Count(cut, cut[i]) > Count(top, cut[i])}}

\* C17: with TopN = N > 0 and more than N current peaks, top-N leaves
\* exactly N peaks, all of them current peaks, each at least as intense as
\* every discarded peak.
C17_TopN ==
    \A k \in 1..Len(stages) :
        LET r == stages[k]
        IN  (r.config.TopN > 0 /\ Len(r.cut) > r.config.TopN) =>
                /\ Len(r.top) = r.config.TopN
                /\ SubBag(r.top, r.cut)
                /\ \A i \in 1..Len(r.top) :
                       \A y \in Discarded(r.cut, r.top) :
                           r.top[i].Intensity >= y.Intensity

\* C17 witness: top-N has discarded a peak as intense as one it kept.
C17_Witness ==
    /\ Len(stages) >= 1
    /\ config.TopN > 0
    /\ Len(stages[1].cut) > config.TopN
    /\ \E i \in 1..Len(stages[1].top) :
           \E y \in Discarded(stages[1].cut, stages[1].top) :
               stages[1].top[i].Intensity = y.Intensity

\* C18: top-N with N >= the number of current peaks, a cutoff of 0 and an
\* empty ion-type list each leave the peaks as they are, peaks without
\* annotation included.
C18_Boundaries ==
    \A k \in 1..Len(stages) :
        LET r == stages[k]
        IN  /\ r.config.TopN >= Len(r.cut) => r.top = r.cut
            /\ r.config.IntensityCutoff = 0 => r.cut = r.ion
            /\ r.config.IonTypes = <<>> => r.ion = r.in

\* C18 witness: Apply has run with top-N equal to the number of peaks, no
\* cutoff and no ion-type list on peaks one of which has no annotation and
\* which are not in descending intensity order.
C18_Witness ==
    /\ Len(stages) >= 1
    /\ config.TopN = Len(stages[1].in) /\ config.TopN > 0
    /\ config.IntensityCutoff = 0
    /\ config.IonTypes = <<>>
    /\ \E i \in 1..Len(stages[1].in) : stages[1].in[i].Annotation = <<>>
    /\ \E i \in 2..Len(stages[1].in) :
           stages[1].in[i].Intensity > stages[1].in[i - 1].Intensity
    /\ stages[1].top = stages[1].in

----------------------------------------------------------------------------
(* Spectra given to the validator *)

\* a Validate that returns at the first violation it finds
ValidateCall_FirstOnly(s) ==
    [spec |-> s,
     errs |-> IF Validate(s) = <<>> THEN <<>> ELSE <<Head(Validate(s))>>]

\* a call s.Validate(): the Spectrum behind the receiver afterwards (the body
\* assigns to no field of it) and the entries of the error returned
ValidateCall(s) == [spec |-> s, errs |-> Validate(s)]

\* bound on the number of Validate calls on one Spectrum
MaxValidates == 2

\* spec.Validate() on the current Spectrum
ValidateSpectrum ==
    /\ Len(verdict) < MaxValidates
    /\ LET r == ValidateCall(currentSpec)
       IN  /\ currentSpec' = r.spec
           /\ verdict' = Append(verdict, [given |-> currentSpec, errs |-> r.errs])
    /\ UNCHANGED <<format, input, pos, lineNum, err, modDB, calls, yielded, fate,
                   entries, config, stages, sinkVars>>

\* bound on the number of peaks of a Spectrum given to the validator
MaxValidatedPeaks == 2

\* the peaks a Spectrum given to the validator is made of: two well-formed
\* ones, and peaks with a zero, NaN or infinite m/z, with a negative or NaN
\* intensity, and with both values out of range
ValidatedPeaks ==
    {Peak(100 * Scale, 5 * Scale, <<>>),
     Peak(200 * Scale, 5 * Scale, <<>>),
     Peak(0, 5 * Scale, <<>>),
     Peak(NaN, 5 * Scale, <<>>),
     Peak(PosInf, 5 * Scale, <<>>),
     Peak(100 * Scale, -Scale, <<>>),
     Peak(100 * Scale, NaN, <<>>),
     Peak(NegInf, NegInf, <<>>)}

InitValidate ==
    \E seq \in {<<>>, <<"A", "C">>}, charge \in {0, 2},
       precursor \in {0, 400 * Scale, NaN},
       mode \in {"", "HCD"}, analyzer \in {"", "FT"},
       peaks \in SeqsUpTo(ValidatedPeaks, MaxValidatedPeaks) :
        /\ IdleReader
        /\ currentSpec = [NewSpectrum("msp") EXCEPT
                              !.Sequence = seq,
                              !.Charge = charge,
                              !.PrecursorMZ = precursor,
                              !.Peaks = peaks,
                              !.FragmentationMode = mode,
                              !.MassAnalyzer = analyzer]
        /\ config = ZeroConfig
        /\ stages = <<>>
        /\ verdict = <<>>
        /\ Offline

SpecValidate == InitValidate /\ [][ValidateSpectrum]_vars

\* x is a finite number
Finite(x) == x \notin {NaN, PosInf, NegInf}

\* the rules on the Spectrum as a whole that s violates
ViolatedRules(s) ==
    {rule \in {"sequence is required", "charge must be positive",
               "precursor m/z must be positive", "at least one peak is required",
               "fragmentation mode is required", "mass analyzer is required",
               "peaks must be sorted by m/z"} :
        \/ rule = "sequence is required" /\ Len(s.Sequence) = 0
        \/ rule = "charge must be positive" /\ s.Charge <= 0
        \/ rule = "precursor m/z must be positive"
           /\ s.PrecursorMZ # NaN /\ s.PrecursorMZ <= 0
        \/ rule = "at least one peak is required" /\ Len(s.Peaks) = 0
        \/ rule = "fragmentation mode is required" /\ s.FragmentationMode = ""
        \/ rule = "mass analyzer is required" /\ s.MassAnalyzer = ""
        \/ rule = "peaks must be sorted by m/z"
           /\ \E i \in 2..Len(s.Peaks) :
                  /\ s.Peaks[i].MZ # NaN /\ s.Peaks[i - 1].MZ # NaN
                  /\ s.Peaks[i].MZ < s.Peaks[i - 1].MZ}

\* the 0-based indices of the peaks of s with a non-finite or non-positive
\* m/z or a non-finite or negative intensity
OffendingPeaks(s) ==
    {i - 1 : i \in {j \in 1..Len(s.Peaks) :
                       \/ ~Finite(s.Peaks[j].MZ)
                       \/ s.Peaks[j].MZ <= 0
                       \/ ~Finite(s.Peaks[j].Intensity)
                       \/ s.Peaks[j].Intensity < 0}}

\* C19: Validate returns no error exactly when the Spectrum violates none of
\* the rules; then its peaks are in non-decreasing m/z order with positive
\* m/z and non-negative intensity; peaks {mz 200}, {mz 100} in that order are
\* rejected as unsorted.
C19_ValidateExact ==
    \A k \in 1..Len(verdict) :
        LET s == verdict[k].given
            e == verdict[k].errs
        IN  /\ (e = <<>>) <=> (ViolatedRules(s) = {} /\ OffendingPeaks(s) = {})
            /\ e = <<>> =>
                   /\ \A i \in 1..Len(s.Peaks) :
                          /\ Finite(s.Peaks[i].MZ) /\ s.Peaks[i].MZ > 0
                          /\ Finite(s.Peaks[i].Intensity) /\ s.Peaks[i].Intensity >= 0
                   /\ \A i \in 2..Len(s.Peaks) : s.Peaks[i - 1].MZ <= s.Peaks[i].MZ
            /\ (Len(s.Peaks) = 2 /\ s.Peaks[1].MZ = 200 * Scale
                    /\ s.Peaks[2].MZ = 100 * Scale)
                   => \E i \in 1..Len(e) : e[i].rule = "peaks must be sorted by m/z"

\* C19 witness: a Spectrum that is well-formed apart from its two peaks,
\* m/z 200 then m/z 100, has been validated twice and rejected for that alone.
C19_Witness ==
    /\ Len(verdict) = 2
    /\ verdict[1].given.Peaks
           = <<Peak(200 * Scale, 5 * Scale, <<>>), Peak(100 * Scale, 5 * Scale, <<>>)>>
    /\ verdict[1].errs = <<Violation("peaks must be sorted by m/z", -1)>>

\* C20: Validate leaves the Spectrum as it was, and the error it returns has
\* an entry for every rule on the Spectrum as a whole that is violated and for
\* every offending peak, and none for anything else.
C20_PureAggregate ==
    \A k \in 1..Len(verdict) :
        LET s == verdict[k].given
            e == verdict[k].errs
        IN  /\ currentSpec = s
            /\ {e[i].rule : i \in {j \in 1..Len(e) : e[j].peak = -1}} = ViolatedRules(s)
            /\ {e[i].peak : i \in {j \in 1..Len(e) : e[j].peak >= 0}} = OffendingPeaks(s)
            /\ Len(e) >= Cardinality(ViolatedRules(s)) + Cardinality(OffendingPeaks(s))

\* C20 witness: a Spectrum that violates two rules as a whole and has two
\* offending peaks has been validated, and the error lists all four.
C20_Witness ==
    /\ Len(verdict) >= 1
    /\ Cardinality(ViolatedRules(verdict[1].given)) = 2
    /\ Cardinality(OffendingPeaks(verdict[1].given)) = 2
    /\ Len(verdict[1].errs) >= 4
    /\ currentSpec = verdict[1].given

----------------------------------------------------------------------------
(* pkg/core: the mass calculator *)

\* atomic masses (monoisotopic) and the proton mass, rounded to units of
\* 1/Scale
MassH == 1007825
MassC == 12000000
MassN == 14003074
MassO == 15994915
MassS == 31972071
ProtonMass == 1007276

\* core.AminoAcidComposition
Composition(c, h, n, o, s) == [C |-> c, H |-> h, N |-> n, O |-> o, S |-> s]

\* core.AminoAcidMasses: one-letter code -> elemental composition
AminoAcidMasses ==
    [aa \in {"A", "R", "N", "D", "C", "E", "Q", "G", "H", "I",
             "L", "K", "M", "F", "P", "S", "T", "W", "Y", "V"} |->
        CASE aa = "A" -> Composition(3, 5, 1, 1, 0)
          [] aa = "R" -> Composition(6, 12, 4, 1, 0)
          [] aa = "N" -> Composition(4, 6, 2, 2, 0)
          [] aa = "D" -> Composition(4, 5, 1, 3, 0)
          [] aa = "C" -> Composition(3, 5, 1, 1, 1)
          [] aa = "E" -> Composition(5, 7, 1, 3, 0)
          [] aa = "Q" -> Composition(5, 8, 2, 2, 0)
          [] aa = "G" -> Composition(2, 3, 1, 1, 0)
          [] aa = "H" -> Composition(6, 7, 3, 1, 0)
          [] aa = "I" -> Composition(6, 11, 1, 1, 0)
          [] aa = "L" -> Composition(6, 11, 1, 1, 0)
          [] aa = "K" -> Composition(6, 12, 2, 1, 0)
          [] aa = "M" -> Composition(5, 9, 1, 1, 1)
          [] aa = "F" -> Composition(9, 9, 1, 1, 0)
          [] aa = "P" -> Composition(5, 7, 1, 1, 0)
          [] aa = "S" -> Composition(3, 5, 1, 2, 0)
          [] aa = "T" -> Composition(4, 7, 1, 2, 0)
          [] aa = "W" -> Composition(11, 10, 2, 1, 0)
          [] aa = "Y" -> Composition(9, 9, 1, 2, 0)
          [] aa = "V" -> Composition(5, 9, 1, 1, 0)]

\* CalculatePeptideMass, the loop over the sequence: a letter of the table adds
\* its composition, any other letter adds nothing
RECURSIVE PeptideComp(_, _)
PeptideComp(sequence, comp) ==
    IF sequence = <<>> THEN comp
    ELSE LET aa == Head(sequence)
         IN  PeptideComp(Tail(sequence),
                 IF aa \in DOMAIN AminoAcidMasses
                 THEN Composition(comp.C + AminoAcidMasses[aa].C,
                                  comp.H + AminoAcidMasses[aa].H,
                                  comp.N + AminoAcidMasses[aa].N,
                                  comp.O + AminoAcidMasses[aa].O,
                                  comp.S + AminoAcidMasses[aa].S)
                 ELSE comp)

\* CalculatePeptideMass, the loop over the modifications: mass += mod.Mass
RECURSIVE PeptideMods(_, _)
PeptideMods(modifications, mass) ==
    IF modifications = <<>> THEN mass
    ELSE PeptideMods(Tail(modifications), mass + Head(modifications).Mass)

\* a variant of CalculatePeptideMass that adds one proton whatever the charge
CalculatePeptideMass_OneProton(sequence, charge, modifications) ==
    LET comp == PeptideComp(sequence, Composition(0, 2, 0, 1, 0))
        mass == comp.C * MassC + comp.H * MassH + comp.N * MassN
                    + comp.O * MassO + comp.S * MassS
    IN  Quot(PeptideMods(modifications, mass) + ProtonMass, charge)

\* core.CalculatePeptideMass for a charge other than zero: the m/z
\* (mass + charge * proton) / charge
CalculatePeptideMass(sequence, charge, modifications) ==
    LET comp == PeptideComp(sequence, Composition(0, 2, 0, 1, 0))
        mass == comp.C * MassC + comp.H * MassH + comp.N * MassN
                    + comp.O * MassO + comp.S * MassS
    IN  Quot(PeptideMods(modifications, mass) + charge * ProtonMass, charge)

\* CalculateNeutralMass, the loop over the sequence
RECURSIVE NeutralComp(_, _)
NeutralComp(sequence, comp) ==
    IF sequence = <<>> THEN comp
    ELSE LET aa == Head(sequence)
         IN  NeutralComp(Tail(sequence),
                 IF aa \in DOMAIN AminoAcidMasses
                 THEN Composition(comp.C + AminoAcidMasses[aa].C,
                                  comp.H + AminoAcidMasses[aa].H,
                                  comp.N + AminoAcidMasses[aa].N,
                                  comp.O + AminoAcidMasses[aa].O,
                                  comp.S + AminoAcidMasses[aa].S)
                 ELSE comp)

\* CalculateNeutralMass, the loop over the modifications
RECURSIVE NeutralMods(_, _)
NeutralMods(modifications, mass) ==
    IF modifications = <<>> THEN mass
    ELSE NeutralMods(Tail(modifications), mass + Head(modifications).Mass)

\* a variant of CalculateNeutralMass that starts from an empty composition
CalculateNeutralMass_NoWater(sequence, modifications) ==
    LET comp == NeutralComp(sequence, Composition(0, 0, 0, 0, 0))
        mass == comp.C * MassC + comp.H * MassH + comp.N * MassN
                    + comp.O * MassO + comp.S * MassS
    IN  NeutralMods(modifications, mass)

\* core.CalculateNeutralMass
CalculateNeutralMass(sequence, modifications) ==
    LET comp == NeutralComp(sequence, Composition(0, 2, 0, 1, 0))
        mass == comp.C * MassC + comp.H * MassH + comp.N * MassN
                    + comp.O * MassO + comp.S * MassS
    IN  NeutralMods(modifications, mass)

\* bound on the number of calculator calls and on the charge given to them
MaxCalculations == 1
MaxCharge == 3

\* one call of each calculator function on the sequence and modifications of
\* the Spectrum at hand, for a charge z >= 1
Calculate ==
    /\ Len(masses) < MaxCalculations
    /\ \E z \in 1..MaxCharge :
        masses' = Append(masses,
            [sequence      |-> currentSpec.Sequence,
             modifications |-> currentSpec.Modifications,
             charge        |-> z,
             neutral       |-> CalculateNeutralMass(currentSpec.Sequence,
                                                    currentSpec.Modifications),
             mz            |-> CalculatePeptideMass(currentSpec.Sequence, z,
                                                    currentSpec.Modifications)])
    /\ UNCHANGED <<format, input, pos, lineNum, currentSpec, err, modDB, calls,
                   yielded, fate, entries, config, stages, verdict, loads,
                   writer, flags, run>>

\* bounds on the sequences and modification lists given to the calculator
MaxResidues == 2
MaxMods == 2

\* residue letters: three of the table (C carries sulfur) and two outside it
MassLetters == {"A", "C", "W", "X", "a"}

\* modification masses: Carbamidomethyl, Oxidation and a water loss
MassMods ==
    {Modification(57021464, 0, ""), Modification(15994915, 1, ""),
     Modification(-18010565, -1, "")}

InitMass ==
    \E seq \in SeqsUpTo(MassLetters, MaxResidues),
       mods \in SeqsUpTo(MassMods, MaxMods) :
        /\ IdleReader
        /\ currentSpec = [NewSpectrum("msp") EXCEPT
                              !.Sequence = seq, !.Modifications = mods]
        /\ config = ZeroConfig
        /\ stages = <<>>
        /\ verdict = <<>>
        /\ Offline

SpecMass == InitMass /\ [][Calculate]_vars

\* C21: every CalculatePeptideMass(sequence, z, mods) with z >= 1 equals
\* (CalculateNeutralMass(sequence, mods) + z * ProtonMass) / z: the two
\* separately coded functions compute the same neutral mass.
C21_SameNeutralMass ==
    \A i \in 1..Len(masses) :
        masses[i].mz
            = Quot(masses[i].neutral + masses[i].charge * ProtonMass,
                   masses[i].charge)

\* C21 witness: both functions were applied, for a charge above one, to a
\* sequence with a sulfur residue and a letter outside the table and to a
\* non-empty modification list.
C21_Witness ==
    \E i \in 1..Len(masses) :
        /\ masses[i].charge >= 2
        /\ \E k \in 1..Len(masses[i].sequence) : masses[i].sequence[k] = "C"
        /\ \E k \in 1..Len(masses[i].sequence) : masses[i].sequence[k] = "X"
        /\ masses[i].modifications # <<>>

\* the mass of one residue letter, by the elements of its composition
ResidueMass(aa) ==
    IF aa \in DOMAIN AminoAcidMasses
    THEN AminoAcidMasses[aa].C * MassC + AminoAcidMasses[aa].H * MassH
             + AminoAcidMasses[aa].N * MassN + AminoAcidMasses[aa].O * MassO
             + AminoAcidMasses[aa].S * MassS
    ELSE 0

\* the sum of f[i] over a finite set of indices
RECURSIVE SumOver(_, _)
SumOver(f, idx) ==
    IF idx = {} THEN 0
    ELSE LET i == CHOOSE j \in idx : TRUE
         IN  f[i] + SumOver(f, idx \ {i})

\* the rearrangements of a sequence
Rearrangements(s) ==
    {[i \in 1..Len(s) |-> s[p[i]]] :
        p \in {q \in [1..Len(s) -> 1..Len(s)] :
                  \A a, b \in 1..Len(s) : a # b => q[a] # q[b]}}

\* C22: CalculateNeutralMass(sequence, mods) is the mass of one water plus the
\* composition mass of every residue letter of the 20-letter table plus every
\* modification mass; a letter outside the table contributes zero and fails
\* nothing; the result is the same for every order of the residues and of
\* the modifications (masses compared at the precision of 1/Scale).
C22_NeutralMass ==
    \A i \in 1..Len(masses) :
        LET seq  == masses[i].sequence
            mods == masses[i].modifications
        IN  /\ masses[i].neutral
                   = 2 * MassH + MassO
                       + SumOver([k \in 1..Len(seq) |-> ResidueMass(seq[k])],
                                 1..Len(seq))
                       + SumOver([k \in 1..Len(mods) |-> mods[k].Mass],
                                 1..Len(mods))
            /\ \A seq2 \in Rearrangements(seq), mods2 \in Rearrangements(mods) :
                   CalculateNeutralMass(seq2, mods2) = masses[i].neutral

\* C22 witness: the neutral mass of a sequence of two different letters, one
\* of them outside the table, with two different modifications.
C22_Witness ==
    \E i \in 1..Len(masses) :
        /\ Len(masses[i].sequence) = 2
        /\ masses[i].sequence[1] # masses[i].sequence[2]
        /\ \E k \in 1..2 : masses[i].sequence[k] \notin DOMAIN AminoAcidMasses
        /\ \E k \in 1..2 : masses[i].sequence[k] \in DOMAIN AminoAcidMasses
        /\ Len(masses[i].modifications) = 2
        /\ masses[i].modifications[1] # masses[i].modifications[2]

----------------------------------------------------------------------------
(* pkg/core: loading the modification database *)

\* ModDatabase.LoadFromCSV, the loop over the lines after the header; lineNum
\* is the number of the last line read.  Returns [db, err]: the rows before a
\* failing line have been stored when the error is returned.
RECURSIVE LoadRows(_, _, _)
LoadRows(db, lines, n) ==
    IF lines = <<>> THEN [db |-> db, err |-> NoErr]
    ELSE LET line  == TrimSpace(Head(lines))
             parts == Split(line, <<",">>)
         IN  IF line = <<>> THEN LoadRows(db, Tail(lines), n + 1)
             ELSE IF Len(parts) < 2
             THEN [db |-> db, err |-> LineErr(n + 1, "invalid format")]
             ELSE LET modName == TrimSpace(parts[1])
                      mass    == ParseFloat(TrimSpace(parts[2]))
                  IN  IF ~mass.ok
                      THEN [db |-> db, err |-> LineErr(n + 1, "invalid mass value")]
                      ELSE LoadRows(Add(db, modName, mass.val), Tail(lines), n + 1)

\* a variant of LoadFromCSV that reads the first line as a data row
LoadFromCSV_HeaderRead(db, lines) == LoadRows(db, lines, 0)

\* ModDatabase.LoadFromCSV over the lines of r: the first line is skipped
LoadFromCSV(db, lines) ==
    LoadRows(db, IF lines = <<>> THEN <<>> ELSE Tail(lines), 1)

\* bounds on the rows of a CSV file and on the calls made on one database
MaxRows == 2
MaxWrites == 3

NameOxidation == <<"O", "x", "i", "d", "a", "t", "i", "o", "n">>

\* a data row, a row padded with spaces and carrying a third column, a second
\* mass for the same name, a non-numeric mass, a row of one field, a blank line
RowPool ==
    {[kind |-> "row", name |-> NameOxidation, mass |-> 15994915,
      text |-> NameOxidation \o <<",">> \o RenderSigned(15994915)],
     [kind |-> "row", name |-> NameTMT, mass |-> -18010565,
      text |-> <<" ">> \o NameTMT \o <<" ", ",", " ">> \o RenderSigned(-18010565)
                  \o <<" ", ",", "K">>],
     [kind |-> "row", name |-> NameOxidation, mass |-> Scale \div 2,
      text |-> NameOxidation \o <<",">> \o RenderSigned(Scale \div 2)],
     [kind |-> "badmass", name |-> NameTMT, mass |-> 0,
      text |-> NameTMT \o <<",", "a", "b", "c">>],
     [kind |-> "short", name |-> NameTMT, mass |-> 0, text |-> NameTMT],
     [kind |-> "blank", name |-> <<>>, mass |-> 0, text |-> <<" ">>]}

\* the header of unimod_custom.csv, and a first line that reads as a data row
HeaderPool ==
    {<<"m", "o", "d", ",", "m", "a", "s", "s", "s", "h", "i", "f", "t", ",", "a", "a">>,
     NameHex \o <<",", "1", ".", "5">>}

\* the (name, mass) pairs given to Add
AddPool ==
    {[name |-> NameOxidation, mass |-> 79966331],
     [name |-> NameTMT, mass |-> 229162932],
     [name |-> NameHex, mass |-> 162052824]}

\* db.Add(name, mass)
AddMod ==
    /\ Len(loads) < MaxWrites
    /\ \E a \in AddPool :
        /\ modDB' = Add(modDB, a.name, a.mass)
        /\ loads' = Append(loads,
               [op |-> "Add", rows |-> <<[kind |-> "row", name |-> a.name,
                                          mass |-> a.mass, text |-> <<>>]>>,
                before |-> modDB, after |-> Add(modDB, a.name, a.mass),
                err |-> NoErr])
    /\ UNCHANGED <<format, input, pos, lineNum, currentSpec, err, calls, yielded,
                   fate, entries, config, stages, verdict, masses, writer,
                   flags, run>>

\* db.LoadFromCSV(f) on the file of the run, as the drivers call it: a failure
\* is a warning only, the database is used as the call left it
LoadCSV ==
    /\ Len(loads) < MaxWrites
    /\ LET r == LoadFromCSV(modDB, input)
       IN  /\ modDB' = r.db
           /\ loads' = Append(loads,
                  [op |-> "LoadFromCSV", rows |-> entries, before |-> modDB,
                   after |-> r.db, err |-> r.err])
    /\ UNCHANGED <<format, input, pos, lineNum, currentSpec, err, calls, yielded,
                   fate, entries, config, stages, verdict, masses, writer,
                   flags, run>>

\* an empty database and a CSV file of a header and up to MaxRows lines
InitModDB ==
    \E header \in HeaderPool, rows \in SeqsUpTo(RowPool, MaxRows) :
        /\ format = "msp"
        /\ input = <<header>> \o [i \in 1..Len(rows) |-> rows[i].text]
        /\ entries = rows
        /\ pos = 0
        /\ lineNum = 0
        /\ currentSpec = NilSpec
        /\ err = NoErr
        /\ modDB = NewModDatabase
        /\ calls = <<>>
        /\ yielded = <<>>
        /\ fate = <<>>
        /\ NoPipeline

SpecModDB == InitModDB /\ [][AddMod \/ LoadCSV]_vars

\* the names a database of this specification can hold
KnownNames == {NameOxidation, NameTMT, NameHex}

\* the index of the first row that stops a load (0 if none does)
StopRow(rows) ==
    IF \E k \in 1..Len(rows) : rows[k].kind \in {"badmass", "short"}
    THEN CHOOSE k \in 1..Len(rows) :
             /\ rows[k].kind \in {"badmass", "short"}
             /\ \A j \in 1..(k - 1) : rows[j].kind \notin {"badmass", "short"}
    ELSE 0

\* the rows of a call that are to be stored: those before the stopping row
StoredRows(rows) ==
    LET stop == StopRow(rows)
        last == IF stop = 0 THEN Len(rows) ELSE stop - 1
    IN  {k \in 1..last : rows[k].kind = "row"}

\* the last write of name n in the calls 1..upto: <<mass>>, or <<>> if none
LastWrite(n, upto) ==
    LET hits == {c \in 1..upto :
                    \E k \in StoredRows(loads[c].rows) : loads[c].rows[k].name = n}
    IN  IF hits = {} THEN <<>>
        ELSE LET c  == CHOOSE x \in hits : \A y \in hits : y <= x
                 ks == {k \in StoredRows(loads[c].rows) : loads[c].rows[k].name = n}
                 k  == CHOOSE x \in ks : \A y \in ks : y <= x
             IN  <<loads[c].rows[k].mass>>

\* C27: after any sequence of Add and successful LoadFromCSV calls, GetMass
\* (name) returns (m, true) with m the most recent write for that name, and
\* found = false exactly when the name was never written; a write to one name
\* never changes another name's mass.
C27_LastWriteWins ==
    (\A c \in 1..Len(loads) : loads[c].err = NoErr) =>
        \A n \in KnownNames \cup {<<" ">> \o NameTMT \o <<" ">>} :
            LET w == LastWrite(n, Len(loads))
            IN  GetMass(modDB, n)
                    = IF w = <<>> THEN [ok |-> FALSE, mass |-> 0]
                      ELSE [ok |-> TRUE, mass |-> w[1]]

\* C27 witness: a name was written by Add and then again by a successful
\* LoadFromCSV of two rows, and another name was never written.
C27_Witness ==
    /\ Len(loads) = 2
    /\ loads[1].op = "Add" /\ loads[1].rows[1].name = NameOxidation
    /\ loads[2].op = "LoadFromCSV" /\ loads[2].err = NoErr
    /\ Len(loads[2].rows) = 2
    /\ \A k \in 1..2 : loads[2].rows[k].kind = "row"
                          /\ loads[2].rows[k].name = NameOxidation
    /\ ~GetMass(modDB, NameTMT).ok

\* C28: LoadFromCSV never adds the header row; on a data row whose mass is not
\* a number it returns an error carrying that row's 1-based line number (the
\* header is line 1, blank lines are counted); the rows before that line
\* remain applied and the rows after it are not applied.
C28_LoadStopsAtBadMass ==
    \A c \in 1..Len(loads) :
        loads[c].op = "LoadFromCSV" =>
            LET rows == loads[c].rows
                stop == StopRow(rows)
            IN  /\ \A n \in KnownNames :
                       LET ks == {k \in StoredRows(rows) : rows[k].name = n}
                       IN  GetMass(loads[c].after, n)
                               = IF ks = {} THEN GetMass(loads[c].before, n)
                                 ELSE [ok   |-> TRUE,
                                       mass |-> rows[CHOOSE x \in ks :
                                                        \A y \in ks : y <= x].mass]
                /\ DOMAIN loads[c].after \subseteq KnownNames
                /\ (stop # 0 /\ rows[stop].kind = "badmass") =>
                       loads[c].err = LineErr(stop + 1, "invalid mass value")
                /\ (stop = 0) => loads[c].err = NoErr

\* C28 witness: a file whose first line reads as a data row, followed by a
\* blank line or a data row and then a row with a non-numeric mass, was
\* loaded and the error names line 3.
C28_Witness ==
    \E c \in 1..Len(loads) :
        /\ loads[c].op = "LoadFromCSV"
        /\ Len(loads[c].rows) = 2
        /\ loads[c].rows[1].kind \in {"blank", "row"}
        /\ loads[c].rows[2].kind = "badmass"
        /\ input[1] = NameHex \o <<",", "1", ".", "5">>
        /\ loads[c].err.line = 3

----------------------------------------------------------------------------
(* pkg/writer/sqlite: the writer *)

\* Spectrum.ModString: "mass@pos;mass@pos;...", the mass with six decimals
RECURSIVE ModString(_)
ModString(mods) ==
    IF mods = <<>> THEN <<>>
    ELSE FormatF6(Head(mods).Mass) \o <<"@">> \o IntToChars(Head(mods).Position)
             \o (IF Tail(mods) = <<>> THEN <<>> ELSE <<";">> \o ModString(Tail(mods)))

\* Spectrum.Name: "Sequence/Charge"
SpectrumName(spec) == spec.Sequence \o <<"/">> \o IntToChars(spec.Charge)

\* encodePeaksFloat64: a blob of len(peaks)*8 bytes, the i-th eight of them
\* the little-endian bits of the i-th peak's m/z or intensity (kept as the
\* value they encode)
EncodePeaksFloat64(peaks, useMZ) ==
    [size  |-> Len(peaks) * 8,
     words |-> [i \in 1..Len(peaks) |->
                   IF useMZ THEN peaks[i].MZ ELSE peaks[i].Intensity]]

\* the CompoundTable row WriteSpectrum inserts
CompoundRow(id, spec) ==
    [CompoundId    |-> id,
     Formula       |-> ModString(spec.Modifications),
     Name          |-> SpectrumName(spec),
     Tag           |-> <<"m", "o", "d", "s", ":">> \o ModString(spec.Modifications)
                          \o (IF spec.MassOffset # 0
                              THEN <<" ", "m", "a", "s", "s", "O", "f", "f", "s",
                                     "e", "t", ":">> \o FormatF6(spec.MassOffset)
                              ELSE <<>>),
     Sequence      |-> spec.Sequence,
     CompoundClass |-> spec.CompoundClass]

\* the SpectrumTable row WriteSpectrum inserts
SpectrumRow(id, spec) ==
    [SpectrumId        |-> id,
     CompoundId        |-> id,
     RetentionTime     |-> spec.RetentionTime,
     PrecursorMass     |-> spec.PrecursorMZ,
     NeutralMass       |-> CalculateNeutralMass(spec.Sequence, spec.Modifications),
     CollisionEnergy   |-> spec.CollisionEnergy,
     FragmentationMode |-> spec.FragmentationMode,
     MassAnalyzer      |-> spec.MassAnalyzer,
     blobMass          |-> EncodePeaksFloat64(spec.Peaks, TRUE),
     blobIntensity     |-> EncodePeaksFloat64(spec.Peaks, FALSE)]

\* what can happen to the two INSERT statements of one call: both run, or the
\* database fails the first or the second (I/O error, disk full, lock)
Faults == {"none", "compound", "spectrum"}

\* Writer.WriteSpectrum given the sorted peaks: each Exec is its own
\* statement, committed when it returns; an INSERT also fails when its
\* INTEGER PRIMARY KEY is already in the table.  Returns [writer, spec, err].
WriteSorted(w, spec, fault) ==
    IF fault = "compound"
       \/ \E i \in 1..Len(w.compounds) : w.compounds[i].CompoundId = w.compoundID
    THEN [writer |-> w, spec |-> spec, err |-> LineErr(0, "failed to insert compound")]
    ELSE LET w1 == [w EXCEPT !.compounds = Append(@, CompoundRow(w.compoundID, spec))]
         IN  IF fault = "spectrum"
                \/ \E i \in 1..Len(w.spectra) : w.spectra[i].SpectrumId = w.compoundID
             THEN [writer |-> w1, spec |-> spec,
                   err |-> LineErr(0, "failed to insert spectrum")]
             ELSE [writer |-> [w1 EXCEPT
                                  !.spectra = Append(@, SpectrumRow(w.compoundID, spec)),
                                  !.compoundID = @ + 1],
                   spec |-> spec, err |-> NoErr]

\* Writer.WriteSpectrum: the peaks are sorted in place first, unless they are
\* sorted already; the set of what the call can return
WriteSpectrum(w, spec, fault) ==
    {WriteSorted(w, [spec EXCEPT !.Peaks = peaks], fault) :
        peaks \in IF ArePeaksSorted(spec) THEN {spec.Peaks} ELSE SortPeaks(spec.Peaks)}

\* the statement of Finalize that fails, if any
FinalizeFaults == {"none", "header", "maintenance", "close"}

\* Writer.Finalize on a database handle that takes statements after Close
Finalize_Reentrant(w, fault) ==
    LET Returned(w1, ok) == [w1 EXCEPT !.finalizes = Append(@, ok)]
    IN  IF fault = "header" THEN Returned(w, FALSE)
        ELSE IF fault = "maintenance"
        THEN Returned([w EXCEPT !.header = @ + 1], FALSE)
        ELSE Returned([w EXCEPT !.header = @ + 1, !.maintenance = @ + 1,
                                !.closed = TRUE],
                      fault = "none")

\* Writer.Finalize (Writer.Close is the same call): the HeaderTable insert,
\* the MaintenanceTable insert, then the statements and the database are
\* closed; the first failure is returned, and every statement on a closed
\* database fails.  The writer afterwards, the outcome added to finalizes.
Finalize(w, fault) ==
    LET Returned(w1, ok) == [w1 EXCEPT !.finalizes = Append(@, ok)]
    IN  IF w.closed \/ fault = "header" THEN Returned(w, FALSE)
        ELSE IF fault = "maintenance"
        THEN Returned([w EXCEPT !.header = @ + 1], FALSE)
        ELSE Returned([w EXCEPT !.header = @ + 1, !.maintenance = @ + 1,
                                !.closed = TRUE],
                      fault = "none")

\* bound on the number of WriteSpectrum calls on one writer
MaxWriteCalls == 3

PeakLow  == Peak(100 * Scale, 5 * Scale, <<>>)
PeakHigh == Peak(200 * Scale, 7 * Scale, <<"y", "1">>)

\* the Spectra given to the writer: valid ones, with sorted and unsorted peaks
WriterSpectra ==
    {[NewSpectrum("msp") EXCEPT
          !.Sequence = seq, !.Charge = 2, !.PrecursorMZ = 400 * Scale,
          !.Peaks = peaks, !.Modifications = mods,
          !.FragmentationMode = "HCD", !.MassAnalyzer = "FT"] :
        seq \in {<<"A", "C">>}, peaks \in {<<PeakLow>>, <<PeakHigh, PeakLow>>},
        mods \in {<<>>, <<Modification(57021464, 1, "")>>}}

\* writer.WriteSpectrum(spec)
Write ==
    /\ Len(writer.returned) < MaxWriteCalls
    /\ \E spec \in WriterSpectra, fault \in Faults :
        \E r \in WriteSpectrum(writer, spec, fault) :
            /\ writer' = [r.writer EXCEPT
                             !.returned = Append(@, [given |-> spec, kept |-> r.spec,
                                                     err |-> r.err])]
            /\ currentSpec' = r.spec
    /\ UNCHANGED <<format, input, pos, lineNum, err, modDB, calls, yielded, fate,
                   entries, config, stages, verdict, masses, loads, flags, run>>

InitWriter ==
    /\ IdleReader
    /\ currentSpec = NilSpec
    /\ NoPipeline

SpecWriter == InitWriter /\ [][Write]_vars

\* C25: no partial record is ever persisted: in every reachable writer state
\* each CompoundTable row has its matching SpectrumTable row, WriteSpectrum
\* persisting both rows or neither.
C25_NoPartialRecord ==
    \A i \in 1..Len(writer.compounds) :
        \E j \in 1..Len(writer.spectra) :
            writer.spectra[j].CompoundId = writer.compounds[i].CompoundId

\* the WriteSpectrum calls that returned nil, in order
Successes ==
    LET idx == {c \in 1..Len(writer.returned) : writer.returned[c].err = NoErr}
        Nth(i) == CHOOSE c \in idx : Cardinality({d \in idx : d <= c}) = i
    IN  [i \in 1..Cardinality(idx) |-> writer.returned[Nth(i)]]

\* C26: after k successful WriteSpectrum calls the sink holds exactly k
\* compound rows and k spectrum rows; the i-th written Spectrum has CompoundId
\* = SpectrumId = i (ids 1..k without gaps, the id advancing only on success);
\* its m/z blob and intensity blob hold the same number of values, in the
\* same peak order.
C26_RowsPerSuccess ==
    LET k == Len(Successes)
    IN  /\ Len(writer.compounds) = k
        /\ Len(writer.spectra) = k
        /\ writer.compoundID = k + 1
        /\ \A i \in 1..k :
               /\ writer.compounds[i].CompoundId = i
               /\ writer.spectra[i].SpectrumId = i
               /\ writer.spectra[i].CompoundId = i
               /\ writer.spectra[i].blobMass.size = writer.spectra[i].blobIntensity.size
               /\ writer.spectra[i].blobMass.size = 8 * Len(Successes[i].given.Peaks)
               /\ SameBag([j \in 1..Len(Successes[i].given.Peaks) |->
                              <<writer.spectra[i].blobMass.words[j],
                                writer.spectra[i].blobIntensity.words[j]>>],
                          [j \in 1..Len(Successes[i].given.Peaks) |->
                              <<Successes[i].given.Peaks[j].MZ,
                                Successes[i].given.Peaks[j].Intensity>>])

----------------------------------------------------------------------------
(* cmd/dbkey/cmd: the conversion drivers *)

\* a variant of RemoveZeroIntensityPeaks that keeps the peaks of intensity zero
RECURSIVE RemoveZeroIntensityPeaks_KeepZero(_)
RemoveZeroIntensityPeaks_KeepZero(peaks) ==
    IF peaks = <<>> THEN <<>>
    ELSE (IF FLe(0, Head(peaks).Intensity) THEN <<Head(peaks)>> ELSE <<>>)
             \o RemoveZeroIntensityPeaks_KeepZero(Tail(peaks))

\* filter.RemoveZeroIntensityPeaks: the peaks with Intensity > 0, in order
RECURSIVE RemoveZeroIntensityPeaks(_)
RemoveZeroIntensityPeaks(peaks) ==
    IF peaks = <<>> THEN <<>>
    ELSE (IF FLt(0, Head(peaks).Intensity) THEN <<Head(peaks)>> ELSE <<>>)
             \o RemoveZeroIntensityPeaks(Tail(peaks))

\* the lookup-table overrides of both drivers: massOffsetMap[spec.Sequence]
\* and compoundClassMap[spec.Sequence], each applied when the key is present
Overrides(spec, fl) ==
    [spec EXCEPT
        !.MassOffset = IF spec.Sequence \in DOMAIN fl.massOffsetMap
                       THEN fl.massOffsetMap[spec.Sequence] ELSE @,
        !.CompoundClass = IF spec.Sequence \in DOMAIN fl.compoundClassMap
                          THEN fl.compoundClassMap[spec.Sequence] ELSE @]

\* convertSPTXT: the fragmentation mode and mass analyzer of the flags, CID
\* and IT where neither the flag nor the file sets them
SptxtDefaultModes(spec, fragmentation, massAnalyzer) ==
    [spec EXCEPT
        !.FragmentationMode =
            IF fragmentation # "" /\ fragmentation # "read" THEN fragmentation
            ELSE IF @ = "" THEN "CID" ELSE @,
        !.MassAnalyzer =
            IF massAnalyzer # "" THEN massAnalyzer
            ELSE IF @ = "" THEN "IT" ELSE @]

\* both drivers: spec.CollisionEnergy = &collisionEnergy when the flag is > 0
SetCollisionEnergy(spec, fl) ==
    IF fl.collisionEnergy > 0
    THEN [spec EXCEPT !.CollisionEnergy = <<fl.collisionEnergy>>] ELSE spec

\* convertMSP: the precursor m/z is recalculated from the sequence and the
\* modifications whenever there is a sequence and a positive charge
MspPrecursor(spec) ==
    IF Len(spec.Sequence) > 0 /\ spec.Charge > 0
    THEN [spec EXCEPT !.PrecursorMZ =
              CalculatePeptideMass(spec.Sequence, spec.Charge, spec.Modifications)
                  + (IF spec.MassOffset # 0
                     THEN Quot(spec.MassOffset, spec.Charge) ELSE 0)]
    ELSE spec

\* convertSPTXT: the precursor m/z is recalculated only if it is not set
SptxtPrecursor(spec) ==
    IF spec.PrecursorMZ = 0 /\ Len(spec.Sequence) > 0 /\ spec.Charge > 0
    THEN [spec EXCEPT !.PrecursorMZ =
              CalculatePeptideMass(spec.Sequence, spec.Charge, spec.Modifications)
                  + (IF spec.MassOffset # 0
                     THEN Quot(spec.MassOffset, spec.Charge) ELSE 0)]
    ELSE spec

\* the loop body of convertMSP up to the precursor m/z
MspPrepare(spec, fl) ==
    MspPrecursor(SetCollisionEnergy(
        DefaultModes(Overrides(spec, fl), fl.fragmentation, fl.massAnalyzer), fl))

\* the loop body of convertSPTXT up to the precursor m/z
SptxtPrepare(spec, fl) ==
    SptxtPrecursor(SetCollisionEnergy(
        SptxtDefaultModes(Overrides(spec, fl), fl.fragmentation, fl.massAnalyzer), fl))

\* what one loop iteration did: the Spectrum the reader yielded, as prepared,
\* as given to Apply, the Apply run, as handed to Validate, what Validate
\* returned, how the iteration ended ("skipped", "written" or "failed"), and
\* what WriteSpectrum returned: the writer, the Spectrum and the error
Iteration(y, prepared, given, a, handed, errs, wrote, r) ==
    [yielded |-> y, prepared |-> prepared, given |-> given, apply |-> a,
     handed |-> handed, errs |-> errs, wrote |-> wrote, writer |-> r.writer,
     spec |-> r.spec, err |-> r.err]

\* a variant of the loop body that hands every record to the sink
ConvertOutcomes_NoValidate(y, prepared, c, w, fault) ==
    LET given == [prepared EXCEPT !.Peaks = RemoveZeroIntensityPeaks(@)]
    IN  UNION {
            {Iteration(y, prepared, given, a, [given EXCEPT !.Peaks = a.out],
                       Validate([given EXCEPT !.Peaks = a.out]),
                       IF r.err = NoErr THEN "written" ELSE "failed", r) :
                r \in WriteSpectrum(w, [given EXCEPT !.Peaks = a.out], fault)} :
            a \in ApplyOutcomes(c, given)}

\* the loop body of both drivers from RemoveZeroIntensityPeaks on: the
\* filters, the validation (a failure skips the record) and the write
ConvertOutcomes(y, prepared, c, w, fault) ==
    LET given == [prepared EXCEPT !.Peaks = RemoveZeroIntensityPeaks(@)]
    IN  UNION {
            IF Validate([given EXCEPT !.Peaks = a.out]) # <<>>
            THEN {Iteration(y, prepared, given, a, [given EXCEPT !.Peaks = a.out],
                            Validate([given EXCEPT !.Peaks = a.out]), "skipped",
                            [writer |-> w, spec |-> [given EXCEPT !.Peaks = a.out],
                             err |-> NoErr])}
            ELSE {Iteration(y, prepared, given, a, [given EXCEPT !.Peaks = a.out],
                            <<>>, IF r.err = NoErr THEN "written" ELSE "failed", r) :
                     r \in WriteSpectrum(w, [given EXCEPT !.Peaks = a.out], fault)} :
            a \in ApplyOutcomes(c, given)}

\* the history entry of an iteration, under the number of its Next call
LogEntry(o, call) ==
    [call |-> call, yielded |-> o.yielded, prepared |-> o.prepared,
     given |-> o.given, apply |-> o.apply, handed |-> o.handed,
     errs |-> o.errs, wrote |-> o.wrote]

\* a variant of the bookkeeping that counts a failed write as a skipped record
Account_SinkFailureSkipped(r, o, call) ==
    [status  |-> r.status,
     count   |-> IF o.wrote = "written" THEN r.count + 1 ELSE r.count,
     skipped |-> IF o.wrote = "written" THEN r.skipped ELSE r.skipped + 1,
     log     |-> Append(r.log, LogEntry(o, call))]

\* how an iteration ends: skipped++ and continue, return on a failed write,
\* count++ after a write
Account(r, o, call) ==
    [status  |-> IF o.wrote = "failed" THEN "failed" ELSE r.status,
     count   |-> IF o.wrote = "written" THEN r.count + 1 ELSE r.count,
     skipped |-> IF o.wrote = "skipped" THEN r.skipped + 1 ELSE r.skipped,
     log     |-> Append(r.log, LogEntry(o, call))]

\* one pass of the driver loop given what readSpectrum returned: reader.Next,
\* then the loop body on the Spectrum it yielded, or, when Next returned
\* false, reader.Err and writer.Finalize; the deferred writer.Close runs
\* whenever the driver returns
ConvertWith(r, prepared) ==
    /\ run.status = "running"
    /\ Len(calls) < MaxCalls
    /\ pos' = r.pos
    /\ lineNum' = r.lineNum
    /\ fate' = r.fate
    /\ err' = IF r.out = "err" THEN r.err ELSE err
    /\ calls' = Append(calls, [from |-> pos, to |-> r.pos, out |-> r.out,
                                ret |-> (r.out = "spec")])
    /\ yielded' = IF r.out = "spec" THEN Append(yielded, r.spec) ELSE yielded
    /\ IF r.out = "spec"
       THEN \E fault \in Faults :
                \E o \in ConvertOutcomes(r.spec, prepared, config, writer, fault) :
                    /\ currentSpec' = o.spec
                    /\ stages' = Append(stages, o.apply)
                    /\ verdict' = Append(verdict, [given |-> o.handed,
                                                   errs  |-> o.errs])
                    /\ run' = Account(run, o, Len(calls) + 1)
                    /\ \E w \in {IF o.wrote = "skipped" THEN writer
                                  ELSE [o.writer EXCEPT
                                           !.returned = Append(@,
                                               [given |-> o.handed, kept |-> o.spec,
                                                err   |-> o.err])]} :
                           IF run'.status = "running" THEN writer' = w
                           ELSE \E deferred \in FinalizeFaults :
                                    writer' = Finalize(w, deferred)
       ELSE /\ currentSpec' = NilSpec
            /\ UNCHANGED <<stages, verdict>>
            /\ \E deferred \in FinalizeFaults :
                   IF r.out = "err" \/ err # NoErr
                   THEN /\ run' = [run EXCEPT !.status = "failed"]
                        /\ writer' = Finalize(writer, deferred)
                   ELSE \E fault \in FinalizeFaults :
                            \E w \in {Finalize(writer, fault)} :
                                /\ run' = [run EXCEPT !.status =
                                              IF w.finalizes[Len(w.finalizes)]
                                              THEN "done" ELSE "failed"]
                                /\ writer' = Finalize(w, deferred)
    /\ UNCHANGED <<format, input, modDB, entries, config, masses, loads, flags>>

\* convertMSP: one pass of its loop
ConvertMSP ==
    /\ format = "msp"
    /\ \E r \in {MspReadSpectrum(input, modDB, pos, lineNum, fate)} :
           \E prepared \in {IF r.out = "spec" THEN MspPrepare(r.spec, flags)
                             ELSE NilSpec} :
               ConvertWith(r, prepared)

\* convertSPTXT: one pass of its loop
ConvertSPTXT ==
    /\ format = "sptxt"
    /\ \E r \in {SptxtReadSpectrum(input, modDB, pos, lineNum, fate)} :
           \E prepared \in {IF r.out = "spec" THEN SptxtPrepare(r.spec, flags)
                             ELSE NilSpec} :
               ConvertWith(r, prepared)

\* the peaks of a library record: positive, zero and negative intensities
PeakZero == [mz |-> 50 * Scale, intensity |-> 0, annot |-> <<>>]

\* the records of a library: a sequence with and without lookup-table
\* entries, with and without a precursor m/z of its own (Parent=400.5), with
\* peaks of which some or all have no positive intensity
ConvertShapes ==
    [seq    : {<<"A", "C">>, <<"D">>},
     charge : {2},
     parent : {0, 400 * Scale + Scale \div 2},
     peaks  : {<<PeakPlain, PeakNegative, PeakAnnotated>>, <<PeakZero>>}]

\* the peak line of either format, the intensity with its sign
RenderConvertPeak(f, pk) ==
    RenderSigned(pk.mz) \o <<"\t">> \o RenderSigned(pk.intensity)
        \o (IF pk.annot = <<>> THEN <<>>
            ELSE IF f = "msp" THEN <<"\t", "\"">> \o pk.annot \o <<"\"">>
            ELSE <<"\t">> \o pk.annot)

\* the lines of one record: the precursor m/z, if any, in the Comment line
RenderConvert(f, rec) ==
    <<PfxName \o rec.seq \o <<"/">> \o NatToChars(rec.charge)>>
        \o (IF rec.parent = 0 THEN <<>>
            ELSE <<PfxComment \o KeyParent \o <<"=">> \o RenderSigned(rec.parent)>>)
        \o <<LineCount(f, NatToChars(Len(rec.peaks)))>>
        \o [i \in 1..Len(rec.peaks) |-> RenderConvertPeak(f, rec.peaks[i])]

RECURSIVE RenderLibrary(_, _)
RenderLibrary(f, recs) ==
    IF recs = <<>> THEN <<>>
    ELSE RenderConvert(f, Head(recs)) \o RenderLibrary(f, Tail(recs))

\* the flags of a run: the defaults, or --fragmentation read, no mass
\* analyzer, a collision energy and both lookup tables with an entry for AC
ConvertFlags ==
    {DefaultFlags,
     [fragmentation    |-> "read",
      massAnalyzer     |-> "",
      collisionEnergy  |-> 30 * Scale,
      massOffsetMap    |-> [q \in {<<"A", "C">>} |-> 10 * Scale],
      compoundClassMap |-> [q \in {<<"A", "C">>} |-> "ClassA"]]}

\* the filters of a run: none, or a 5% cutoff and the single most intense peak
ConvertConfigs ==
    {ZeroConfig, [ZeroConfig EXCEPT !.IntensityCutoff = 5 * Scale, !.TopN = 1]}

\* a driver at the top of its loop: the reader over the library, a new
\* writer, count and skipped zero
InitConvert ==
    \E f \in Formats, recs \in SeqsUpTo(ConvertShapes, MaxRecords),
       c \in ConvertConfigs, fl \in ConvertFlags :
        /\ NewReader(f, RenderLibrary(f, recs))
        /\ entries = recs
        /\ config = c
        /\ stages = <<>>
        /\ verdict = <<>>
        /\ masses = <<>>
        /\ loads = <<>>
        /\ writer = NewWriter
        /\ flags = fl
        /\ run = NewRun

SpecConvert == InitConvert /\ [][ConvertMSP \/ ConvertSPTXT]_vars

\* the number of iterations that ended as given
Ended(how) == Cardinality({i \in 1..Len(run.log) : run.log[i].wrote = how})

\* C23: in both drivers a record that fails validation is counted as skipped,
\* is never passed to the sink and does not stop the run; every record handed
\* to WriteSpectrum has passed Validate; when a run completes, the written
\* count plus the skipped count is the number of records the parser yielded.
C23_SkipInvalid ==
    /\ \A i \in 1..Len(run.log) :
           /\ run.log[i].errs # <<>> => run.log[i].wrote = "skipped"
           /\ (run.log[i].wrote = "skipped" /\ run.status # "running") =>
                  Len(calls) > run.log[i].call
    /\ \A j \in 1..Len(writer.returned) : Validate(writer.returned[j].given) = <<>>
    /\ Len(writer.returned) = Ended("written") + Ended("failed")
    /\ Len(writer.spectra) = Ended("written")
    /\ run.skipped = Ended("skipped")
    /\ run.count = Ended("written")
    /\ run.status = "done" => run.count + run.skipped = Len(yielded)

\* C23 witness: a completed run over two records, one skipped for failing
\* validation and then one written.
C23_Witness ==
    /\ run.status = "done"
    /\ Len(run.log) = 2
    /\ run.log[1].wrote = "skipped" /\ run.log[1].errs # <<>>
    /\ run.log[2].wrote = "written"
    /\ run.count = 1 /\ run.skipped = 1

\* C24: a sink failure is fatal: after WriteSpectrum returns an error the
\* driver pulls no further record, writes no further record and returns an
\* error.
C24_SinkFailureFatal ==
    \A i \in 1..Len(run.log) :
        run.log[i].wrote = "failed" =>
            /\ i = Len(run.log)
            /\ run.status = "failed"
            /\ Len(calls) = run.log[i].call
            /\ Len(writer.returned) = Ended("written") + 1
            /\ writer.returned[Len(writer.returned)].err # NoErr

\* C24 witness: the write of the first of two valid records failed, and the
\* second record is still unread.
C24_Witness ==
    /\ Len(run.log) = 1
    /\ run.log[1].wrote = "failed"
    /\ Len(entries) = 2
    /\ pos < Len(input)
    /\ entries[2].peaks # <<PeakZero>>

AllPositive(peaks) == \A k \in 1..Len(peaks) : peaks[k].Intensity > 0

\* C29: in both drivers, for every record, the lookup-table overrides
\* (massOffset and compoundClass by exact sequence match) and the removal of
\* the peaks with intensity <= 0 are applied before Config.Apply runs: the
\* cutoff and top-N steps never see a peak with a non-positive intensity, and
\* no such peak reaches validation or the sink.
C29_OverridesAndRemovalFirst ==
    /\ \A i \in 1..Len(run.log) :
           LET e == run.log[i]
           IN  /\ e.apply.in = e.given.Peaks
               /\ e.given.MassOffset
                      = IF e.yielded.Sequence \in DOMAIN flags.massOffsetMap
                        THEN flags.massOffsetMap[e.yielded.Sequence]
                        ELSE e.yielded.MassOffset
               /\ e.given.CompoundClass
                      = IF e.yielded.Sequence \in DOMAIN flags.compoundClassMap
                        THEN flags.compoundClassMap[e.yielded.Sequence]
                        ELSE e.yielded.CompoundClass
               /\ SubBag(e.given.Peaks, e.yielded.Peaks)
               /\ \A k \in 1..Len(e.yielded.Peaks) :
                      e.yielded.Peaks[k].Intensity > 0 =>
                          Count(e.given.Peaks, e.yielded.Peaks[k])
                              = Count(e.yielded.Peaks, e.yielded.Peaks[k])
               /\ AllPositive(e.apply.in) /\ AllPositive(e.apply.ion)
               /\ AllPositive(e.apply.cut) /\ AllPositive(e.apply.top)
               /\ AllPositive(e.handed.Peaks)
    /\ \A j \in 1..Len(writer.returned) : AllPositive(writer.returned[j].given.Peaks)
    /\ \A j \in 1..Len(writer.spectra) :
           \A k \in 1..Len(writer.spectra[j].blobIntensity.words) :
               writer.spectra[j].blobIntensity.words[k] > 0

\* C29 witness: a record of the sequence with lookup-table entries, yielded
\* with a negative-intensity peak, went through a cutoff and top-N and was
\* written; and a record of only a zero-intensity peak was given to Apply.
C29_Witness ==
    /\ \E i \in 1..Len(run.log) :
           /\ run.log[i].yielded.Sequence \in DOMAIN flags.massOffsetMap
           /\ \E k \in 1..Len(run.log[i].yielded.Peaks) :
                  run.log[i].yielded.Peaks[k].Intensity < 0
           /\ run.log[i].apply.config.TopN > 0
           /\ run.log[i].wrote = "written"
    /\ \E i \in 1..Len(run.log) :
           /\ Len(run.log[i].yielded.Peaks) = 1
           /\ run.log[i].yielded.Peaks[1].Intensity = 0
           /\ run.log[i].apply.in = <<>>

\* C30: the precursor m/z handed to validation and the sink does not depend
\* on the format: for the same sequence, charge, modifications, mass offset
\* and input-supplied precursor m/z, the Format A and the Format B driver
\* produce the same precursor m/z, the mass calculator replacing it only when
\* the input supplied none.
C30_PrecursorFormatIndependent ==
    \A i \in 1..Len(run.log) :
        LET e  == run.log[i]
            src == [e.prepared EXCEPT !.PrecursorMZ = e.yielded.PrecursorMZ]
        IN  /\ e.handed.PrecursorMZ = MspPrecursor(src).PrecursorMZ
            /\ e.handed.PrecursorMZ = SptxtPrecursor(src).PrecursorMZ
            /\ e.yielded.PrecursorMZ # 0 => e.handed.PrecursorMZ = e.yielded.PrecursorMZ


----------------------------------------------------------------------------
(* What Config.Apply leaves alone *)

\* peaks with the m/z blanked
WithoutMZ(peaks) == [i \in 1..Len(peaks) |-> [peaks[i] EXCEPT !.MZ = 0]]

\* annotation has the form the ion-annotation grammar starts with: a
\* lowercase letter and a digit
IsIonAnnotation(annotation) ==
    /\ Len(annotation) >= 2
    /\ annotation[1] \in LowerLetters
    /\ annotation[2] \in Digits

\* C31: Config.Apply adds no peak and changes no peak's intensity or
\* annotation, nor the Spectrum's sequence, charge, precursor m/z or
\* modification list; a peak's m/z changes only in the fragment adjustment
\* and only if its annotation matches the ion-annotation grammar: peaks with
\* an empty or non-matching annotation keep their m/z, and no error is raised.
C31_ApplyFrame ==
    [][stages' # stages =>
          LET r == stages'[Len(stages')]
          IN  /\ currentSpec' = [currentSpec EXCEPT !.Peaks = r.out]
              /\ err' = err
              /\ r.in = currentSpec.Peaks
              /\ SubBag(r.top, r.in)
              /\ Len(r.adj) = Len(r.top)
              /\ \A i \in 1..Len(r.top) :
                     /\ [r.adj[i] EXCEPT !.MZ = r.top[i].MZ] = r.top[i]
                     /\ ~IsIonAnnotation(r.top[i].Annotation)
                            => r.adj[i] = r.top[i]
              /\ SameBag(r.out, r.adj)
              /\ SubBag(WithoutMZ(r.out), WithoutMZ(r.in))]_vars

\* C31 witness: the adjustment has moved a peak of a Spectrum in which a
\* peak without annotation and a peak whose annotation is not an ion
\* annotation went through it.
C31_Witness ==
    /\ Len(stages) >= 1
    /\ \E i \in 1..Len(stages[1].top) : stages[1].adj[i].MZ # stages[1].top[i].MZ
    /\ \E i \in 1..Len(stages[1].top) : stages[1].top[i].Annotation = <<>>
    /\ \E i \in 1..Len(stages[1].top) :
           /\ stages[1].top[i].Annotation # <<>>
           /\ ~IsIonAnnotation(stages[1].top[i].Annotation)


\* the peaks of peaks that have the largest intensity
MostIntense(peaks) ==
    LET IsMax(peak) == peak.Intensity = TrueMax(peaks)
    IN  IF peaks = <<>> THEN <<>> ELSE Kept(peaks, IsMax)

\* C38: on a non-empty peak list whose largest intensity is positive, a
\* cutoff with 0 < cutoff <= 100 keeps every peak of the largest intensity
\* and top-N with N >= 1 keeps a peak of the largest intensity, so neither
\* step empties the list: Apply returns no peaks only if the ion-type filter
\* left none.
C38_MaximumSurvives ==
    \A k \in 1..Len(stages) :
        LET r == stages[k]
            c == r.config
        IN  /\ (/\ r.ion # <<>>
                /\ TrueMax(r.ion) > 0
                /\ c.IntensityCutoff > 0
                /\ c.IntensityCutoff <= 100 * Scale)
                   => /\ r.cut # <<>>
                      /\ MostIntense(r.cut) = MostIntense(r.ion)
            /\ (r.cut # <<>> /\ TrueMax(r.cut) > 0 /\ c.TopN >= 1)
                   => /\ r.top # <<>>
                      /\ \E i \in 1..Len(r.top) :
                             r.top[i].Intensity = TrueMax(r.cut)
            /\ r.out = <<>> => r.ion = <<>>

\* C38 witness: a cutoff of 100 percent has dropped a peak and kept the two
\* peaks that tie for the largest intensity, and top-N with N = 2 has run on
\* the two.
C38_Witness ==
    /\ Len(stages) >= 1
    /\ config.IntensityCutoff = 100 * Scale
    /\ Len(stages[1].cut) < Len(stages[1].ion)
    /\ Len(MostIntense(stages[1].ion)) = 2
    /\ config.TopN = 2
    /\ Len(stages[1].top) = 2


----------------------------------------------------------------------------
(* Peak lines with an annotation token *)

\* bound on the length of an annotation token
MaxToken == 4

\* the characters an annotation token is made of
TokenChars == {"b", "2", "/", "\""}

\* the peak line "100 5 <token>"
LinePeakToken(token) == LinePeakGood \o <<" ">> \o token

\* a one-record stream whose only peak line carries an arbitrary third field
InitAnnotation ==
    \E f \in Formats, token \in SeqsUpTo(TokenChars, MaxToken) :
        /\ NewReader(f, <<LineNameGood, LineCount(f, <<"1">>), LinePeakToken(token)>>)
        /\ entries = <<>>
        /\ NoPipeline

SpecAnnotation == InitAnnotation /\ [][Next]_vars

\* the third field of the peak line "100 5 <token>"
TokenOf(line) == SubSeq(line, Len(LinePeakGood) + 2, Len(line))

\* the index of the first "/" of the text s, 0 if it has none
FirstSlash(s) ==
    IF \E i \in 1..Len(s) : s[i] = "/"
    THEN CHOOSE i \in 1..Len(s) : s[i] = "/" /\ \A j \in 1..(i - 1) : s[j] # "/"
    ELSE 0

\* s up to, not including, its first "/"
BeforeSlash(s) == IF FirstSlash(s) = 0 THEN s ELSE SubSeq(s, 1, FirstSlash(s) - 1)

\* s without its leading and trailing double quotes
RECURSIVE Unquoted(_)
Unquoted(s) ==
    IF s # <<>> /\ Head(s) = "\"" THEN Unquoted(Tail(s))
    ELSE IF s # <<>> /\ s[Len(s)] = "\"" THEN Unquoted(SubSeq(s, 1, Len(s) - 1))
    ELSE s

\* C34 as stated: in both formats the stored annotation of a peak is the
\* third whitespace-separated field of its line up to, not including, its
\* first "/", with no other change.
C34_AnnotationStored ==
    \A k \in 1..Len(yielded) :
        Len(yielded[k].Peaks) = 1
            => yielded[k].Peaks[1].Annotation = BeforeSlash(TokenOf(input[3]))

\* C34: Format B stores the third field cut before its first "/" when
\* that "/" is not its first character and whole otherwise; Format A first
\* removes the field's leading and trailing double quotes and then cuts it
\* the same way; nothing else is changed.
C34_AnnotationAsParsed ==
    \A k \in 1..Len(yielded) :
        Len(yielded[k].Peaks) = 1 =>
            LET token == IF format = "msp" THEN Unquoted(TokenOf(input[3]))
                         ELSE TokenOf(input[3])
            IN  yielded[k].Peaks[1].Annotation =
                    IF FirstSlash(token) = 1 THEN token ELSE BeforeSlash(token)

\* C34 witness: the Format A reader has yielded a record whose peak line had
\* a quoted third field with a "/" suffix.
C34_Witness ==
    /\ format = "msp"
    /\ Len(yielded) = 1
    /\ Len(yielded[1].Peaks) = 1
    /\ TokenOf(input[3]) = <<"\"", "b", "/", "\"">>
    /\ yielded[1].Peaks[1].Annotation = <<"b">>


----------------------------------------------------------------------------
(* A modification given twice on one Format A Comment line *)

\* token t is a Mods token, a ModString token
IsModsToken(t) == HasPrefix(t.text, KeyMods \o <<"=">>)
IsModStringToken(t) == HasPrefix(t.text, KeyModString \o <<"=">>)

\* the Comment line has one Mods token and one ModString token, and both
\* describe the same modification
DescribedByBoth ==
    /\ Len(entries) = 2
    /\ \E i, j \in 1..2 :
           /\ IsModsToken(entries[i]) /\ IsModStringToken(entries[j])
           /\ entries[i].kind = "mod" /\ entries[j].kind = "mod"
           /\ entries[i].mod = entries[j].mod

\* C36: a modification described by both the Mods token and the ModString
\* token of one Format A Comment line is in the record's modification list
\* exactly once (one entry for its position), so the computed neutral mass
\* and precursor m/z count its mass once.
C36_DescribedOnce ==
    (DescribedByBoth /\ Len(yielded) >= 1) =>
        LET mods == yielded[1].Modifications
            once == <<entries[1].mod>>
        IN  /\ Count(mods, entries[1].mod) = 1
            /\ \A i, j \in 1..Len(mods) :
                   mods[i].Position = mods[j].Position => i = j
            /\ CalculateNeutralMass(yielded[1].Sequence, mods)
                   = CalculateNeutralMass(yielded[1].Sequence, once)
            /\ CalculatePeptideMass(yielded[1].Sequence, yielded[1].Charge, mods)
                   = CalculatePeptideMass(yielded[1].Sequence, yielded[1].Charge, once)


----------------------------------------------------------------------------
(* Records whose peak list is cut short *)

\* bound on the number of lines after the peak-count line
MaxAfterCount == 3

\* the lines that follow the peak-count line: peak lines and header lines
LinesAfterCount(f) ==
    {LinePeakGood, LineNameGood, LineComment, LineCount(f, <<"1">>),
     PfxMW \o <<"5">>}

\* a stream that starts with a Name line and a line declaring 0, 1 or 2 peaks
InitShort ==
    \E f \in Formats, n \in {<<"0">>, <<"1">>, <<"2">>} :
        \E rest \in SeqsUpTo(LinesAfterCount(f), MaxAfterCount) :
            /\ NewReader(f, <<LineNameGood, LineCount(f, n)>> \o rest)
            /\ entries = <<>>
            /\ NoPipeline

SpecShort == InitShort /\ [][Next]_vars

\* the lines call k parsed as peak lines before line j
PeakLinesBefore(k, j) == {i \in LinesOfCall(k) : i < j /\ fate[i] = "peak"}

\* the number of peaks declared by the count line i
Declared(i) == Atoi(TrimPrefix(TrimSpace(input[i]), CountPrefix(format))).val

\* C37: the PEAKS state is left only after N peak lines have been consumed
\* or at the end of the stream: a Next call that read a line declaring N
\* peaks returns true only with N peak lines read or with the stream at its
\* end, and if a header line comes before N peak lines have been read, the
\* call returns false with Err() set and yields nothing.
C37_PeaksStateLeft ==
    \A k \in 1..Len(calls) :
        \A i \in LinesOfCall(k) :
            fate[i] = "count" =>
                /\ calls[k].ret =>
                       \/ Cardinality(PeakLinesBefore(k, calls[k].to + 1)) = Declared(i)
                       \/ calls[k].to = Len(input)
                /\ (\E j \in LinesOfCall(k) :
                        /\ j > i
                        /\ IsHeaderLine(format, TrimSpace(input[j]))
                        /\ Cardinality(PeakLinesBefore(k, j)) < Declared(i))
                       => /\ ~calls[k].ret
                          /\ calls[k].out = "err"
                          /\ Len(yielded) = Cardinality({c \in 1..Len(calls) : calls[c].ret})
                          /\ k = Len(calls) => (err # NoErr /\ currentSpec = NilSpec)

\* C37 witness: a record declared two peaks, one peak line was read, the
\* next line was a Name line, and the call has failed.
C37_Witness ==
    /\ Len(input) >= 4
    /\ input[2] = LineCount(format, <<"2">>)
    /\ input[3] = LinePeakGood
    /\ input[4] = LineNameGood
    /\ Len(calls) = 1
    /\ calls[1].out = "err"
    /\ err # NoErr
    /\ yielded = <<>>


----------------------------------------------------------------------------
(* Records of different content one after another *)

\* bound on the number of records of such a stream
MaxCrossed == 2

LineNameInline == <<"N", "a", "m", "e", ":", " ", "A", "C", "[", "1", "6", "0", "]", "/", "2">>
LineNameOther  == <<"N", "a", "m", "e", ":", " ", "D", "/", "1">>
LineCommentAll ==
    <<"C", "o", "m", "m", "e", "n", "t", ":", " ", "P", "a", "r", "e", "n", "t", "=", "3", ".", "5", " ", "C", "o", "l", "l", "i", "s", "i", "o", "n", "E", "n", "e", "r", "g", "y", "=", "3", "5", " ", "R", "e", "t", "e", "n", "t", "i", "o", "n", "T", "i", "m", "e", "=", "6", "1", ".", "0", "1", " ", "M", "o", "d", "s", "=", "1", "/", "-", "1", ",", "R", ",", "T", "M", "T">>
LinePeakB2     == <<"1", "0", "0", " ", "5", " ", "b", "2">>

\* the records: one with every Comment datum and an annotated peak, one with
\* an inline modification, a plain one, one without a Name line, and one that
\* declares no peaks
CrossRecords(f) ==
    {<<LineNameGood, LineCommentAll, LineCount(f, <<"1">>), LinePeakB2>>,
     <<LineNameInline, LineCount(f, <<"1">>), LinePeakGood>>,
     <<LineNameOther, LineCount(f, <<"1">>), LinePeakGood>>,
     <<LineCount(f, <<"1">>), LinePeakGood>>,
     <<LineNameOther, LineCount(f, <<"0">>)>>}

RECURSIVE Concat(_)
Concat(ss) == IF ss = <<>> THEN <<>> ELSE Head(ss) \o Concat(Tail(ss))

InitCrossed ==
    \E f \in Formats :
        \E recs \in SeqsUpTo(CrossRecords(f), MaxCrossed) :
            /\ NewReader(f, Concat(recs))
            /\ entries = <<>>
            /\ NoPipeline

SpecCrossed == InitCrossed /\ [][Next]_vars

\* what a reader of format f that has read nothing yields on the lines alone
ReadAlone(f, lines) ==
    IF f = "msp" THEN MspReadSpectrum(lines, modDB, 0, 0, <<>>)
    ELSE SptxtReadSpectrum(lines, modDB, 0, 0, <<>>)

\* the calls up to the k-th that returned true
Trues(k) == {c \in 1..k : calls[c].ret}

\* C32: no state crosses records: the Spectrum a Next call yields is the one
\* a reader that has read nothing builds from the lines this call consumed,
\* whatever the records before it set, and Spectrum() is nil after a Next
\* call that returned false.
C32_NoStateCrossesRecords ==
    /\ \A k \in 1..Len(calls) :
           calls[k].ret =>
               \E r \in {ReadAlone(format, SubSeq(input, calls[k].from + 1, calls[k].to))} :
                   /\ r.out = "spec"
                   /\ yielded[Cardinality(Trues(k))] = r.spec
    /\ Len(calls) >= 1 =>
           currentSpec = IF calls[Len(calls)].ret THEN yielded[Len(yielded)]
                         ELSE NilSpec

\* C32 witness: a record with precursor m/z, collision energy, retention
\* time, a modification and an annotated peak was yielded, then a record that
\* has none of them, and a third call has returned false.
C32_Witness ==
    /\ Len(calls) = 3
    /\ Len(yielded) = 2
    /\ ~calls[3].ret
    /\ yielded[1].PrecursorMZ # 0
    /\ yielded[1].CollisionEnergy # <<>>
    /\ yielded[1].RetentionTime # <<>>
    /\ yielded[1].Modifications # <<>>
    /\ yielded[1].Peaks[1].Annotation # <<>>
    /\ yielded[2].Sequence # yielded[1].Sequence
    /\ yielded[2].PrecursorMZ = 0
    /\ yielded[2].CollisionEnergy = <<>>
    /\ yielded[2].RetentionTime = <<>>
    /\ yielded[2].Modifications = <<>>
    /\ yielded[2].Peaks[1].Annotation = <<>>


----------------------------------------------------------------------------
(* A whole convert run: the database set-up, the loop, the end *)

\* bound on the number of records of the library of a whole run
MaxRunRecords == 2

NameCustom == <<"C", "u", "s", "t", "o", "m">>

\* unimod_custom.csv: absent, a header and a row for a new name, a row that
\* replaces a default mass, a row with a bad mass before a good one
CustomFiles ==
    {[present |-> FALSE, lines |-> <<>>],
     [present |-> TRUE,
      lines |-> <<<<"m", "o", "d", ",", "m", "a", "s", "s">>, <<"C", "u", "s", "t", "o", "m", ",", "1", "0", ".", "5">>>>],
     [present |-> TRUE,
      lines |-> <<<<"m", "o", "d", ",", "m", "a", "s", "s">>, <<"T", "M", "T", ",", "1", ".", "5">>>>],
     [present |-> TRUE,
      lines |-> <<<<"m", "o", "d", ",", "m", "a", "s", "s">>, <<"T", "M", "T", ",", "a", "b", "c">>, <<"C", "u", "s", "t", "o", "m", ",", "1", "0", ".", "5">>>>]}

\* a variant of the set-up that reloads the file while the loop is running
Setup_WhileRunning ==
    /\ run.status \in {"setup", "running"}
    /\ Len(loads) < MaxWrites
    /\ \E file \in CustomFiles :
           \E r \in {IF file.present THEN LoadFromCSV(DefaultModDatabase, file.lines)
                      ELSE [db |-> DefaultModDatabase, err |-> NoErr]} :
               /\ modDB' = r.db
               /\ loads' = Append(loads, [file |-> file, before |-> modDB,
                                           after |-> r.db, err |-> r.err])
    /\ run' = [run EXCEPT !.status = "running"]
    /\ UNCHANGED <<format, input, pos, lineNum, currentSpec, err, calls, yielded,
                   fate, entries, config, stages, verdict, masses, writer, flags>>

\* the drivers before their loop: modDB := DefaultModDatabase(), then
\* LoadFromCSV of unimod_custom.csv if the file is there (a failure is a
\* warning only), then the reader is made over modDB
Setup ==
    /\ run.status = "setup"
    /\ \E file \in CustomFiles :
           \E r \in {IF file.present THEN LoadFromCSV(DefaultModDatabase, file.lines)
                      ELSE [db |-> DefaultModDatabase, err |-> NoErr]} :
               /\ modDB' = r.db
               /\ loads' = Append(loads, [file |-> file, before |-> modDB,
                                           after |-> r.db, err |-> r.err])
    /\ run' = [run EXCEPT !.status = "running"]
    /\ UNCHANGED <<format, input, pos, lineNum, currentSpec, err, calls, yielded,
                   fate, entries, config, stages, verdict, masses, writer, flags>>

LineCommentCustom ==
    <<"C", "o", "m", "m", "e", "n", "t", ":", " ", "P", "a", "r", "e", "n", "t", "=", "4", "0", "0", ".", "5", " ", "M", "o", "d", "s", "=", "1", "/", "0", ",", "A", ",", "C", "u", "s", "t", "o", "m">>
LineCommentParent == <<"C", "o", "m", "m", "e", "n", "t", ":", " ", "P", "a", "r", "e", "n", "t", "=", "4", "0", "0", ".", "5">>
LinePeakNone      == <<"5", "0", " ", "0">>

\* the records of the library: one whose modification is in the custom file
\* only, a plain one, one that fails validation (no peak of positive
\* intensity), and a malformed Name line
RunRecords(f) ==
    {<<LineNameGood, LineCommentCustom, LineCount(f, <<"1">>), LinePeakGood>>,
     <<LineNameGood, LineCommentParent, LineCount(f, <<"1">>), LinePeakGood>>,
     <<LineNameOther, LineCount(f, <<"1">>), LinePeakNone>>,
     <<LineNameBad>>}

\* a driver that has opened its input file and done nothing else
InitRun ==
    \E f \in Formats :
        \E recs \in SeqsUpTo(RunRecords(f), MaxRunRecords) :
            /\ format = f
            /\ input = Concat(recs)
            /\ pos = 0
            /\ lineNum = 0
            /\ currentSpec = NilSpec
            /\ err = NoErr
            /\ modDB = NewModDatabase
            /\ calls = <<>>
            /\ yielded = <<>>
            /\ fate = <<>>
            /\ entries = <<>>
            /\ config = ZeroConfig
            /\ stages = <<>>
            /\ verdict = <<>>
            /\ masses = <<>>
            /\ loads = <<>>
            /\ writer = NewWriter
            /\ flags = DefaultFlags
            /\ run = [NewRun EXCEPT !.status = "setup"]

NextRun == Setup \/ ConvertMSP \/ ConvertSPTXT

SpecRun == InitRun /\ [][NextRun]_vars

\* C33: in a convert run every write to the Modification Database (the
\* default seeding and LoadFromCSV) happens before the first Next call:
\* a step that changes the database leaves no Next call made, and a step
\* that makes a Next call leaves the database as it is, so the database is
\* the same at every Next call and at the end of the run.
C33_WritesBeforeParsing ==
    [][/\ modDB' # modDB => calls' = <<>>
       /\ calls' # calls => (modDB' = modDB /\ loads' = loads)
       /\ calls' # calls => (Len(loads) = 1 /\ modDB = loads[1].after)]_vars

\* C33 witness: the custom file added a modification, a record that uses it
\* was yielded by the first Next call, and the run has ended after a second
\* call with the database as the set-up left it.
C33_Witness ==
    /\ Len(loads) = 1
    /\ GetMass(loads[1].after, NameCustom).ok
    /\ ~GetMass(DefaultModDatabase, NameCustom).ok
    /\ Len(calls) = 2
    /\ Len(yielded) = 1
    /\ yielded[1].Modifications # <<>>
    /\ run.status = "done"
    /\ modDB = loads[1].after



\* the run is over
RunEnded == run.status \in {"done", "failed"}

\* the last Next call returned false at the end of the stream with no error;
\* it returned false with an error; the last iteration failed to write
EndedByExhaustion ==
    /\ calls # <<>>
    /\ calls[Len(calls)].out = "eof"
    /\ calls[Len(calls)].to = Len(input)
    /\ err = NoErr
EndedByParseError ==
    /\ calls # <<>>
    /\ calls[Len(calls)].out = "err"
    /\ err # NoErr
    /\ \A k \in 1..(Len(calls) - 1) : calls[k].out = "spec"
EndedBySinkFailure ==
    /\ run.log # <<>>
    /\ run.log[Len(run.log)].wrote = "failed"
    /\ run.log[Len(run.log)].call = Len(calls)

\* C35: on a finite stream the driver loop terminates: every Next call that
\* returns true has consumed at least one line, so there are at most as many
\* such calls as lines and at most one call more; every pass of the loop
\* either moves the reader forward or ends the run, the bound on the calls
\* of a run never stops one, and a run ends only at the exhaustion of the
\* stream, at the first parse error or at a sink failure.
C35_Terminates ==
    [][/\ \A k \in 1..Len(calls') : calls'[k].ret => calls'[k].to > calls'[k].from
       /\ Cardinality(Trues(Len(calls)))' <= Len(input)
       /\ Len(calls') <= Len(input) + 1
       /\ run.status = "running" => (pos' > pos \/ RunEnded')
       /\ run'.status = "running" => Len(calls') < MaxCalls
       /\ RunEnded' => (EndedByExhaustion' \/ EndedByParseError' \/ EndedBySinkFailure')
       /\ run'.status = "done" => EndedByExhaustion']_vars

\* C35 witness: a run over a library of eight lines has ended at the
\* exhaustion of the stream after two calls that returned true and one that
\* returned false.
C35_Witness ==
    /\ Len(input) = 8
    /\ Len(calls) = 3
    /\ calls[1].ret /\ calls[2].ret /\ ~calls[3].ret
    /\ run.status = "done"
    /\ EndedByExhaustion


\* the finalization effects have taken place exactly once
FinalizedOnce ==
    /\ writer.header = 1
    /\ writer.maintenance = 1
    /\ writer.closed

====
